---- MODULE Spec2Model ----
(***************************************************************************)
(* cross-log: configuration resolution (ConfigManager), the log gate and   *)
(* duplicate ledger (BaseLogger), the console writes (NodeLogger) and the  *)
(* localStorage persistence (BrowserLogger) as a state machine.            *)
(*                                                                         *)
(* Representation                                                          *)
(*  - an optional value (T | undefined) is a sequence of length <= 1:      *)
(*    << >> is undefined, <<v>> is the value v;                            *)
(*  - the text of an environment variable / configuration string is a      *)
(*    sequence of one-character strings, so that toUpperCase, toLowerCase  *)
(*    and parseInt are computed character by character;                    *)
(*  - message texts and category names are strings (only concatenated);    *)
(*  - nested configuration objects (categories, colors, storage,           *)
(*    browserControls) live in a heap and are held by reference, because   *)
(*    { ...config } copies references, not objects.                        *)
(***************************************************************************)
EXTENDS Integers, Sequences, FiniteSets, TLC

VARIABLES
  ambient,      \* the runtime globals: window, process, process.env
  build,        \* which of the repository's two ConfigManager sources is linked
  heap,         \* sequence of nested configuration objects; a reference is an index
  config,       \* logger -> ConfigManager.config (nested fields are references)
  recentLogs,   \* logger -> BaseLogger.recentLogs (key -> time of last acceptance)
  now,          \* Date.now()
  ticks,        \* how many times the clock has advanced
  held,         \* the configuration object the calling code got from getConfig()
  accepted,     \* history: logger -> (<<text, category>> -> time of the last sink write)
  last,         \* the last operation performed and what it did (history)
  localStorage, \* window.localStorage: whether it exists, whether writes fail, its entries
  storageAvailable, \* browser logger -> BrowserLogger.storageAvailable
  win,          \* the names the browser loggers have put on window
  console,      \* global.console: the levels whose console method raises when called
  environments  \* descriptor objects: <<"this", i>> is ConfigManager.environment of
                \* logger i, <<"copy", i>> the object its getEnvironment() returned

vars == <<ambient, build, heap, config, recentLogs, now, ticks, held, accepted, last,
          localStorage, storageAvailable, win, console, environments>>

----------------------------------------------------------------------------
(* LogLevel enum                                                           *)
DEBUG == 0
INFO == 1
WARN == 2
ERROR == 3
SILENT == 4
LogLevel == DEBUG..SILENT

(* the levels of the four logging calls debug() info() warn() error()      *)
CallLevels == {DEBUG, INFO, WARN, ERROR}

----------------------------------------------------------------------------
(* Optional values                                                         *)
Undefined == << >>
Some(v) == <<v>>
IsDefined(o) == o # << >>
Get(o) == o[1]

(* { ...a, ...b }                                                          *)
Spread(a, b) ==
  [f \in (DOMAIN a) \cup (DOMAIN b) |-> IF f \in DOMAIN b THEN b[f] ELSE a[f]]

----------------------------------------------------------------------------
(* String helpers (texts are sequences of characters)                      *)
LowerLetters == <<"a","b","c","d","e","f","g","h","i","j","k","l","m",
                  "n","o","p","q","r","s","t","u","v","w","x","y","z">>
UpperLetters == <<"A","B","C","D","E","F","G","H","I","J","K","L","M",
                  "N","O","P","Q","R","S","T","U","V","W","X","Y","Z">>

toUpperCase(s) ==
  [i \in 1..Len(s) |->
     IF \E k \in 1..26 : LowerLetters[k] = s[i]
     THEN UpperLetters[CHOOSE k \in 1..26 : LowerLetters[k] = s[i]]
     ELSE s[i]]

toLowerCase(s) ==
  [i \in 1..Len(s) |->
     IF \E k \in 1..26 : UpperLetters[k] = s[i]
     THEN LowerLetters[CHOOSE k \in 1..26 : UpperLetters[k] = s[i]]
     ELSE s[i]]

Digits == <<"0","1","2","3","4","5","6","7","8","9">>
IsDigit(c) == \E k \in 1..10 : Digits[k] = c
DigitValue(c) == (CHOOSE k \in 1..10 : Digits[k] = c) - 1

RECURSIVE SkipSpaces(_)
SkipSpaces(s) == IF s # << >> /\ Head(s) = " " THEN SkipSpaces(Tail(s)) ELSE s

RECURSIVE DigitsPrefix(_, _)
DigitsPrefix(s, acc) ==
  IF s # << >> /\ IsDigit(Head(s))
  THEN DigitsPrefix(Tail(s), acc * 10 + DigitValue(Head(s)))
  ELSE acc

(* parseInt(value, 10): leading blanks skipped, optional sign, then the    *)
(* longest run of digits; NaN (Undefined here) when there is no digit.     *)
parseInt(s) ==
  LET t == SkipSpaces(s)
      neg == t # << >> /\ Head(t) = "-"
      u == IF t # << >> /\ Head(t) \in {"-", "+"} THEN Tail(t) ELSE t
  IN IF u # << >> /\ IsDigit(Head(u))
     THEN Some(IF neg THEN 0 - DigitsPrefix(u, 0) ELSE DigitsPrefix(u, 0))
     ELSE Undefined

----------------------------------------------------------------------------
(* core/utils.ts                                                           *)

(* typeof window / typeof process read the ambient globals                 *)
detectEnvironment(amb) ==
  LET isBrowser == amb.hasWindow
      isNode == ~isBrowser /\ amb.hasProcess
      isDevelopment ==
        amb.hasProcess /\
        ~("NODE_ENV" \in DOMAIN amb.env
            /\ amb.env["NODE_ENV"] = <<"p","r","o","d","u","c","t","i","o","n">>)
  IN [isBrowser |-> isBrowser, isNode |-> isNode,
      isDevelopment |-> isDevelopment, isProduction |-> ~isDevelopment]

(* variant: the names are matched as written                              *)
parseLogLevel_CaseSensitive(level) ==
  IF ~IsDefined(level) \/ Get(level) = << >> THEN Undefined
  ELSE LET upperLevel == Get(level)
       IN CASE upperLevel = <<"D","E","B","U","G">> -> Some(DEBUG)
            [] upperLevel = <<"I","N","F","O">> -> Some(INFO)
            [] upperLevel = <<"W","A","R","N">> -> Some(WARN)
            [] upperLevel = <<"E","R","R","O","R">> -> Some(ERROR)
            [] upperLevel = <<"S","I","L","E","N","T">> -> Some(SILENT)
            [] OTHER -> Undefined

parseLogLevel(level) ==
  IF ~IsDefined(level) \/ Get(level) = << >> THEN Undefined
  ELSE LET upperLevel == toUpperCase(Get(level))
       IN CASE upperLevel = <<"D","E","B","U","G">> -> Some(DEBUG)
            [] upperLevel = <<"I","N","F","O">> -> Some(INFO)
            [] upperLevel = <<"W","A","R","N">> -> Some(WARN)
            [] upperLevel = <<"E","R","R","O","R">> -> Some(ERROR)
            [] upperLevel = <<"S","I","L","E","N","T">> -> Some(SILENT)
            [] OTHER -> Undefined

(* variant: a text that is neither true nor false keeps the default        *)
parseEnvBoolean_DefaultOnOther(value, defaultValue) ==
  IF ~IsDefined(value) THEN defaultValue
  ELSE IF toLowerCase(Get(value)) = <<"t","r","u","e">> THEN TRUE
  ELSE IF toLowerCase(Get(value)) = <<"f","a","l","s","e">> THEN FALSE
  ELSE defaultValue

parseEnvBoolean(value, defaultValue) ==
  IF ~IsDefined(value) THEN defaultValue
  ELSE toLowerCase(Get(value)) = <<"t","r","u","e">>

(* variant: a text that is not a number yields zero                        *)
parseEnvInt_ZeroOnOther(value, defaultValue) ==
  IF ~IsDefined(value) THEN defaultValue
  ELSE LET parsed == parseInt(Get(value))
       IN IF ~IsDefined(parsed) THEN 0 ELSE Get(parsed)

parseEnvInt(value, defaultValue) ==
  IF ~IsDefined(value) THEN defaultValue
  ELSE LET parsed == parseInt(Get(value))
       IN IF ~IsDefined(parsed) THEN defaultValue ELSE Get(parsed)

(* process.env[key] || defaultValue, with no defaultValue: an unset or     *)
(* empty variable reads as undefined                                       *)
getEnvVar(amb, key) ==
  IF amb.hasProcess /\ amb.hasEnv
  THEN IF key \in DOMAIN amb.env /\ amb.env[key] # << >>
       THEN Some(amb.env[key]) ELSE Undefined
  ELSE Undefined

(* variant: errors are let through whatever the threshold                  *)
isLoggingEnabled_ErrorAlways(currentLevel, messageLevel, globalEnabled) ==
  globalEnabled /\ (messageLevel = ERROR
                      \/ (messageLevel >= currentLevel /\ currentLevel < SILENT))

isLoggingEnabled(currentLevel, messageLevel, globalEnabled) ==
  globalEnabled /\ messageLevel >= currentLevel /\ currentLevel < SILENT

----------------------------------------------------------------------------
(* core/config.ts: compiled-in defaults                                    *)
DefaultBrowserColors ==
  [debug |-> <<"#","6","E","C","1","E","4">>,
   info  |-> <<"#","4","A","9","F","C","A">>,
   warn  |-> <<"#","F","B","C","0","2","D">>,
   error |-> <<"#","D","6","7","C","2","A">>]

DefaultAnsiColors == [debug |-> 36, info |-> 36, warn |-> 33, error |-> 31]

DefaultKeyPrefix ==
  <<"u","n","i","v","e","r","s","a","l","_","l","o","g","g","e","r">>

DefaultWindowNamespace ==
  <<"_","_","u","n","i","v","e","r","s","a","l","L","o","g","g","e","r">>

EmptyRecord == << >>

NestedFields == {"categories", "colors", "storage", "browserControls"}
NestedOrder == <<"categories", "colors", "storage", "browserControls">>
ScalarFields == {"enabled", "minLevel", "showTimestamp", "includeStackTrace"}
ConfigFields == ScalarFields \cup NestedFields

EnvKeys ==
  {"LOG_LEVEL", "LOGGER_ENABLED", "LOGGER_TIMESTAMPS", "LOGGER_STACK_TRACES",
   "LOGGER_COLORS", "LOGGER_STORAGE_ENABLED", "LOGGER_STORAGE_KEY_PREFIX",
   "LOGGER_BROWSER_CONTROLS", "LOGGER_WINDOW_NAMESPACE",
   "LOGGER_COLOR_DEBUG", "LOGGER_COLOR_INFO", "LOGGER_COLOR_WARN",
   "LOGGER_COLOR_ERROR", "LOGGER_ANSI_DEBUG", "LOGGER_ANSI_INFO",
   "LOGGER_ANSI_WARN", "LOGGER_ANSI_ERROR"}

getEnvConfig(amb) == [k \in EnvKeys |-> getEnvVar(amb, k)]

(* envValue || fallback                                                    *)
OrElse(value, fallback) == IF IsDefined(value) THEN Get(value) ELSE fallback

getDefaultLogLevel(environment, envConfig) ==
  LET envLevel == parseLogLevel(envConfig.LOG_LEVEL)
  IN IF IsDefined(envLevel) THEN Get(envLevel)
     ELSE IF environment.isDevelopment THEN DEBUG ELSE WARN

(* variant: colours are on in the browser only                             *)
getDefaultColorsEnabled_BrowserOnly(environment) ==
  environment.isBrowser

getDefaultColorsEnabled(environment) ==
  environment.isBrowser \/ environment.isDevelopment

(* ConfigManager.mergeWithDefaults of core/config.ts.  The result carries  *)
(* the merged record (cfg) and the nested fields that are objects created  *)
(* by this call (fresh); the other nested fields are the caller's          *)
(* references, copied by the spread.                                       *)
mergeWithDefaults(userConfig, environment, envConfig) ==
  LET defaults ==
        [enabled |-> parseEnvBoolean(envConfig.LOGGER_ENABLED, TRUE),
         minLevel |-> getDefaultLogLevel(environment, envConfig),
         showTimestamp |-> parseEnvBoolean(envConfig.LOGGER_TIMESTAMPS, TRUE),
         includeStackTrace |-> parseEnvBoolean(envConfig.LOGGER_STACK_TRACES, TRUE),
         categories |-> EmptyRecord,
         colors |->
           [enabled |-> parseEnvBoolean(envConfig.LOGGER_COLORS,
                                        getDefaultColorsEnabled(environment)),
            browser |->
              [debug |-> OrElse(envConfig.LOGGER_COLOR_DEBUG, DefaultBrowserColors.debug),
               info  |-> OrElse(envConfig.LOGGER_COLOR_INFO, DefaultBrowserColors.info),
               warn  |-> OrElse(envConfig.LOGGER_COLOR_WARN, DefaultBrowserColors.warn),
               error |-> OrElse(envConfig.LOGGER_COLOR_ERROR, DefaultBrowserColors.error)],
            ansi |->
              [debug |-> parseEnvInt(envConfig.LOGGER_ANSI_DEBUG, DefaultAnsiColors.debug),
               info  |-> parseEnvInt(envConfig.LOGGER_ANSI_INFO, DefaultAnsiColors.info),
               warn  |-> parseEnvInt(envConfig.LOGGER_ANSI_WARN, DefaultAnsiColors.warn),
               error |-> parseEnvInt(envConfig.LOGGER_ANSI_ERROR, DefaultAnsiColors.error)]],
         storage |->
           [enabled |-> parseEnvBoolean(envConfig.LOGGER_STORAGE_ENABLED,
                                        environment.isBrowser),
            keyPrefix |-> OrElse(envConfig.LOGGER_STORAGE_KEY_PREFIX, DefaultKeyPrefix)],
         browserControls |->
           [enabled |-> parseEnvBoolean(envConfig.LOGGER_BROWSER_CONTROLS,
                          environment.isBrowser /\ environment.isDevelopment),
            windowNamespace |->
              OrElse(envConfig.LOGGER_WINDOW_NAMESPACE, DefaultWindowNamespace)]]
  IN [cfg |-> Spread(defaults, userConfig),
      fresh |-> NestedFields \ DOMAIN userConfig]

(* one optional key of an object built with "if (...) o.key = value"       *)
Field(cond, key, value) == IF cond THEN [f \in {key} |-> value] ELSE EmptyRecord

(* if (v) { parsed = parseInt(v, 10); if (!isNaN(parsed)) o.key = parsed } *)
AnsiField(value, key) ==
  IF IsDefined(value) /\ IsDefined(parseInt(Get(value)))
  THEN [f \in {key} |-> Get(parseInt(Get(value)))] ELSE EmptyRecord

(* ConfigManager.mergeWithDefaults, the variant kept in core/utils.ts:     *)
(* base defaults, then the user configuration, then the environment        *)
envOverridesOf(baseDefaults, environment, envConfig) ==
  LET colorsOverride ==
        Field(IsDefined(envConfig.LOGGER_COLORS), "enabled",
              parseEnvBoolean(envConfig.LOGGER_COLORS,
                              getDefaultColorsEnabled(environment)))
      browserColors ==
        Spread(Spread(Spread(
          Field(IsDefined(envConfig.LOGGER_COLOR_DEBUG), "debug",
                OrElse(envConfig.LOGGER_COLOR_DEBUG, << >>)),
          Field(IsDefined(envConfig.LOGGER_COLOR_INFO), "info",
                OrElse(envConfig.LOGGER_COLOR_INFO, << >>))),
          Field(IsDefined(envConfig.LOGGER_COLOR_WARN), "warn",
                OrElse(envConfig.LOGGER_COLOR_WARN, << >>))),
          Field(IsDefined(envConfig.LOGGER_COLOR_ERROR), "error",
                OrElse(envConfig.LOGGER_COLOR_ERROR, << >>)))
      ansiColors ==
        Spread(Spread(Spread(
          AnsiField(envConfig.LOGGER_ANSI_DEBUG, "debug"),
          AnsiField(envConfig.LOGGER_ANSI_INFO, "info")),
          AnsiField(envConfig.LOGGER_ANSI_WARN, "warn")),
          AnsiField(envConfig.LOGGER_ANSI_ERROR, "error"))
      hasColorOverrides == DOMAIN colorsOverride # {}
      hasBrowserColorOverrides == DOMAIN browserColors # {}
      hasAnsiColorOverrides == DOMAIN ansiColors # {}
      storageOverride ==
        Spread(
          Field(IsDefined(envConfig.LOGGER_STORAGE_ENABLED), "enabled",
                parseEnvBoolean(envConfig.LOGGER_STORAGE_ENABLED,
                                environment.isBrowser)),
          Field(IsDefined(envConfig.LOGGER_STORAGE_KEY_PREFIX), "keyPrefix",
                OrElse(envConfig.LOGGER_STORAGE_KEY_PREFIX, << >>)))
      browserControlsOverride ==
        Spread(
          Field(IsDefined(envConfig.LOGGER_BROWSER_CONTROLS), "enabled",
                parseEnvBoolean(envConfig.LOGGER_BROWSER_CONTROLS,
                  environment.isBrowser /\ environment.isDevelopment)),
          Field(IsDefined(envConfig.LOGGER_WINDOW_NAMESPACE), "windowNamespace",
                OrElse(envConfig.LOGGER_WINDOW_NAMESPACE, << >>)))
  IN Spread(Spread(Spread(Spread(Spread(Spread(
       Field(IsDefined(envConfig.LOGGER_ENABLED), "enabled",
             parseEnvBoolean(envConfig.LOGGER_ENABLED, TRUE)),
       Field(IsDefined(envConfig.LOG_LEVEL)
               /\ IsDefined(parseLogLevel(envConfig.LOG_LEVEL)), "minLevel",
             OrElse(parseLogLevel(envConfig.LOG_LEVEL), DEBUG))),
       Field(IsDefined(envConfig.LOGGER_TIMESTAMPS), "showTimestamp",
             parseEnvBoolean(envConfig.LOGGER_TIMESTAMPS, TRUE))),
       Field(IsDefined(envConfig.LOGGER_STACK_TRACES), "includeStackTrace",
             parseEnvBoolean(envConfig.LOGGER_STACK_TRACES, TRUE))),
       Field(hasColorOverrides \/ hasBrowserColorOverrides \/ hasAnsiColorOverrides,
             "colors",
             Spread(Spread(baseDefaults.colors, colorsOverride),
                    [browser |-> Spread(baseDefaults.colors.browser, browserColors),
                     ansi |-> Spread(baseDefaults.colors.ansi, ansiColors)]))),
       Field(DOMAIN storageOverride # {}, "storage",
             Spread(baseDefaults.storage, storageOverride))),
       Field(DOMAIN browserControlsOverride # {}, "browserControls",
             Spread(baseDefaults.browserControls, browserControlsOverride)))

mergeWithDefaultsEnvLast(userConfig, environment, envConfig) ==
  LET baseDefaults ==
        [enabled |-> TRUE,
         minLevel |-> IF environment.isDevelopment THEN DEBUG ELSE WARN,
         showTimestamp |-> TRUE,
         includeStackTrace |-> TRUE,
         categories |-> EmptyRecord,
         colors |-> [enabled |-> getDefaultColorsEnabled(environment),
                     browser |-> DefaultBrowserColors,
                     ansi |-> DefaultAnsiColors],
         storage |-> [enabled |-> environment.isBrowser,
                      keyPrefix |-> DefaultKeyPrefix],
         browserControls |->
           [enabled |-> environment.isBrowser /\ environment.isDevelopment,
            windowNamespace |-> DefaultWindowNamespace]]
      envOverrides == envOverridesOf(baseDefaults, environment, envConfig)
  IN [cfg |-> Spread(Spread(baseDefaults, userConfig), envOverrides),
      fresh |-> (NestedFields \ DOMAIN userConfig)
                  \cup (NestedFields \cap DOMAIN envOverrides)]

(* The two sources of ConfigManager in the repository                      *)
Builds == {"core/config.ts", "core/utils.ts"}

Resolve(b, userConfig, amb) ==
  IF b = "core/config.ts"
  THEN mergeWithDefaults(userConfig, detectEnvironment(amb), getEnvConfig(amb))
  ELSE mergeWithDefaultsEnvLast(userConfig, detectEnvironment(amb), getEnvConfig(amb))

(* process is defined but process.env is not: process.env.NODE_ENV raises  *)
detectEnvironmentThrows(amb) == amb.hasProcess /\ ~amb.hasEnv

(* Store the objects created by a constructor in the heap and replace them *)
(* in the configuration by their references.                               *)
RECURSIVE Materialize(_, _, _, _)
Materialize(h, cfg, fresh, fields) ==
  IF fields = << >> THEN [heap |-> h, cfg |-> cfg]
  ELSE LET f == Head(fields)
       IN IF f \in fresh
          THEN Materialize(Append(h, cfg[f]), [cfg EXCEPT ![f] = Len(h) + 1],
                           fresh, Tail(fields))
          ELSE Materialize(h, cfg, fresh, Tail(fields))

----------------------------------------------------------------------------
(* ConfigManager.getConfig / updateConfig                                  *)

(* { ...this.config }: a new top-level object with the same references     *)
getConfig(i) == config[i]

(* variant: the manager's own object is returned                           *)
getEnvironment_SameObject(objects, i) ==
  [objects |-> objects, ref |-> <<"this", i>>]

(* ConfigManager.getEnvironment: return { ...this.environment }, a new     *)
(* object holding the four values; the result is the object store and the  *)
(* object returned                                                         *)
getEnvironment(objects, i) ==
  [objects |-> (<<"copy", i>> :> objects[<<"this", i>>]) @@ objects,
   ref |-> <<"copy", i>>]

(* variant: the fields already present win over the new ones              *)
updateConfig_OldWins(cfg, newConfig) == Spread(newConfig, cfg)

(* this.config = { ...this.config, ...newConfig }                          *)
updateConfig(cfg, newConfig) == Spread(cfg, newConfig)

(* what a reader of getConfig() sees when following the references         *)
View(h, cfg) ==
  [f \in DOMAIN cfg |-> IF f \in NestedFields THEN h[cfg[f]] ELSE cfg[f]]

----------------------------------------------------------------------------
(* Category maps are plain objects: a lookup that finds no own property    *)
(* continues in Object.prototype, whose members are functions.             *)
ObjectPrototypeMembers ==
  {"constructor", "toString", "toLocaleString", "valueOf", "hasOwnProperty",
   "isPrototypeOf", "propertyIsEnumerable"}

HasOwn(map, name) == name \in DOMAIN map

(* the truthiness of config.categories[category]                           *)
LookupTruthy(map, name) == HasOwn(map, name) \/ name \in ObjectPrototypeMembers

(* categoryConfig.enabled: a function object has no such property          *)
LookupEnabled(map, name) == IF HasOwn(map, name) THEN map[name].enabled ELSE FALSE

(* map[name] = entry                                                       *)
SetEntry(map, name, entry) ==
  [c \in (DOMAIN map) \cup {name} |-> IF c = name THEN entry ELSE map[c]]

(* variant: only undefined is falsy                                        *)
Truthy_DefinedOnly(optString) == IsDefined(optString)

(* a string used as a condition: undefined and '' are falsy                *)
Truthy(optString) == IsDefined(optString) /\ Get(optString) # ""

----------------------------------------------------------------------------
(* BaseLogger                                                              *)
duplicateThreshold == 1000
CleanupSize == 100

(* BaseLogger.isDuplicateLog: the decision and the ledger after the call   *)
DuplicateKey(text, category) ==
  text \o ":" \o (IF Truthy(category) THEN Get(category) ELSE "")

isDuplicateLog_RefreshOnDuplicate(ledger, text, category, t) ==
  LET key == DuplicateKey(text, category)
      known == key \in DOMAIN ledger
      dup == known /\ ledger[key] # 0 /\ (t - ledger[key]) < duplicateThreshold
      set == (key :> t) @@ ledger
  IN [duplicate |-> dup, ledger |-> set]

isDuplicateLog_SweepAtWindow(ledger, text, category, t) ==
  LET key == DuplicateKey(text, category)
      known == key \in DOMAIN ledger
      dup == known /\ ledger[key] # 0 /\ (t - ledger[key]) < duplicateThreshold
      set == (key :> t) @@ ledger
      cutoff == t - duplicateThreshold
      swept == IF Cardinality(DOMAIN set) > CleanupSize
               THEN [k \in {x \in DOMAIN set : ~(set[x] < cutoff)} |-> set[k]]
               ELSE set
  IN IF dup THEN [duplicate |-> TRUE, ledger |-> ledger]
     ELSE [duplicate |-> FALSE, ledger |-> swept]

isDuplicateLog_SweepHalfWindow(ledger, text, category, t) ==
  LET key == DuplicateKey(text, category)
      known == key \in DOMAIN ledger
      dup == known /\ ledger[key] # 0 /\ (t - ledger[key]) < duplicateThreshold
      set == (key :> t) @@ ledger
      cutoff == t - duplicateThreshold \div 2
      swept == IF Cardinality(DOMAIN set) > CleanupSize
               THEN [k \in {x \in DOMAIN set : ~(set[x] < cutoff)} |-> set[k]]
               ELSE set
  IN IF dup THEN [duplicate |-> TRUE, ledger |-> ledger]
     ELSE [duplicate |-> FALSE, ledger |-> swept]

isDuplicateLog(ledger, text, category, t) ==
  LET key == DuplicateKey(text, category)
      known == key \in DOMAIN ledger
      dup == known /\ ledger[key] # 0 /\ (t - ledger[key]) < duplicateThreshold
      set == (key :> t) @@ ledger
      cutoff == t - duplicateThreshold * 2
      swept == IF Cardinality(DOMAIN set) > CleanupSize
               THEN [k \in {x \in DOMAIN set : ~(set[x] < cutoff)} |-> set[k]]
               ELSE set
  IN IF dup THEN [duplicate |-> TRUE, ledger |-> ledger]
     ELSE [duplicate |-> FALSE, ledger |-> swept]

(* variant: the global threshold is applied to overridden categories too   *)
GateOf_GlobalThresholdToo(cfg, categories, level, category) ==
  IF ~cfg.enabled THEN "disabled"
  ELSE IF ~isLoggingEnabled(cfg.minLevel, level, TRUE) THEN "global-level"
  ELSE IF Truthy(category) /\ LookupTruthy(categories, Get(category))
       THEN IF ~LookupEnabled(categories, Get(category)) THEN "category-disabled"
            ELSE IF ~isLoggingEnabled(categories[Get(category)].minLevel, level, TRUE)
                 THEN "category-level"
                 ELSE "pass"
       ELSE "pass"

(* variant: the global flag is consulted only when there is no override    *)
GateOf_OverrideBeforeFlag(cfg, categories, level, category) ==
  IF Truthy(category) /\ LookupTruthy(categories, Get(category))
  THEN IF ~LookupEnabled(categories, Get(category)) THEN "category-disabled"
       ELSE IF ~isLoggingEnabled(categories[Get(category)].minLevel, level, TRUE)
            THEN "category-level"
            ELSE "pass"
  ELSE IF ~cfg.enabled THEN "disabled"
       ELSE IF ~isLoggingEnabled(cfg.minLevel, level, TRUE)
            THEN "global-level"
            ELSE "pass"

(* BaseLogger.logWithLevel up to the duplicate check: why the call stops,  *)
(* or "pass"                                                               *)
GateOf(cfg, categories, level, category) ==
  IF ~cfg.enabled THEN "disabled"
  ELSE IF Truthy(category) /\ LookupTruthy(categories, Get(category))
       THEN IF ~LookupEnabled(categories, Get(category)) THEN "category-disabled"
            ELSE IF ~isLoggingEnabled(categories[Get(category)].minLevel, level, TRUE)
                 THEN "category-level"
                 ELSE "pass"
       ELSE IF ~isLoggingEnabled(cfg.minLevel, level, TRUE)
            THEN "global-level"
            ELSE "pass"

----------------------------------------------------------------------------
(* loggers/browser.ts: window.localStorage                                 *)

(* no localStorage at all (Node.js, or a browser that withholds it)        *)
NoLocalStorage == [present |-> FALSE, full |-> FALSE, items |-> EmptyRecord]

(* an entry holding plain text, and an entry holding the JSON text of a    *)
(* value: the serialization follows every reference, so what is stored is  *)
(* the tree of values, not the objects                                     *)
TextEntry(t) == [text |-> t]

JSONstringify(h, cfg) == [text |-> "{...}", tree |-> View(h, cfg)]

(* JSON.parse: the tree of a serialized object; the scalar texts parse to  *)
(* values that spread as nothing; any other text raises SyntaxError        *)
JsonScalarTexts == {"true", "false", "null", "0"}

JSONparse(entry) ==
  IF "tree" \in DOMAIN entry THEN [ok |-> TRUE, value |-> entry.tree]
  ELSE IF entry.text \in JsonScalarTexts THEN [ok |-> TRUE, value |-> EmptyRecord]
  ELSE [ok |-> FALSE]

ConfigSuffix == <<"_","c","o","n","f","i","g">>
EnabledSuffix == <<"_","e","n","a","b","l","e","d">>

getItem(storage, key) ==
  IF key \in DOMAIN storage.items THEN Some(storage.items[key]) ELSE Undefined

setItem(items, key, entry) ==
  [k \in (DOMAIN items) \cup {key} |-> IF k = key THEN entry ELSE items[k]]

(* BrowserLogger.checkStorageAvailability: window.localStorage exists and  *)
(* a test write succeeds                                                   *)
checkStorageAvailability(amb, storage) ==
  amb.hasWindow /\ storage.present /\ ~storage.full

(* variant: the enabled entry is written as 1 or 0                         *)
saveConfigToStorage_EnabledAsDigit(available, h, cfg, storage) ==
  IF ~available \/ ~h[cfg.storage].enabled
  THEN [storage |-> storage, reported |-> FALSE]
  ELSE IF ~storage.present \/ storage.full
  THEN [storage |-> storage, reported |-> TRUE]
  ELSE [storage |->
          [storage EXCEPT !.items =
             setItem(setItem(@, h[cfg.storage].keyPrefix \o ConfigSuffix,
                             JSONstringify(h, cfg)),
                     h[cfg.storage].keyPrefix \o EnabledSuffix,
                     TextEntry(IF cfg.enabled THEN "1" ELSE "0"))],
        reported |-> FALSE]

(* BrowserLogger.saveConfigToStorage: the outcome is the storage and       *)
(* whether a failure was reported with console.error                       *)
(* variant: with storage disabled the entries are removed                  *)
saveConfigToStorage_ClearWhenDisabled(available, h, cfg, storage) ==
  IF ~available THEN [storage |-> storage, reported |-> FALSE]
  ELSE IF ~h[cfg.storage].enabled
  THEN [storage |-> [storage EXCEPT !.items = EmptyRecord], reported |-> FALSE]
  ELSE IF ~storage.present \/ storage.full
  THEN [storage |-> storage, reported |-> TRUE]
  ELSE LET configKey == h[cfg.storage].keyPrefix \o ConfigSuffix
           enabledKey == h[cfg.storage].keyPrefix \o EnabledSuffix
           booleanText == IF cfg.enabled THEN "true" ELSE "false"
       IN [storage |->
             [storage EXCEPT !.items =
                setItem(setItem(@, configKey, JSONstringify(h, cfg)),
                        enabledKey, TextEntry(booleanText))],
           reported |-> FALSE]

saveConfigToStorage(available, h, cfg, storage) ==
  IF ~available \/ ~h[cfg.storage].enabled
  THEN [storage |-> storage, reported |-> FALSE]
  ELSE IF ~storage.present \/ storage.full
  THEN [storage |-> storage, reported |-> TRUE]
  ELSE LET configKey == h[cfg.storage].keyPrefix \o ConfigSuffix
           enabledKey == h[cfg.storage].keyPrefix \o EnabledSuffix
           booleanText == IF cfg.enabled THEN "true" ELSE "false"
       IN [storage |->
             [storage EXCEPT !.items =
                setItem(setItem(@, configKey, JSONstringify(h, cfg)),
                        enabledKey, TextEntry(booleanText))],
           reported |-> FALSE]

(* this.saveConfigToStorage() after a configuration operation: a           *)
(* BrowserLogger saves, any other logger has no such step                  *)
SavedBy(i, h, cfg) ==
  IF i \in DOMAIN storageAvailable
  THEN saveConfigToStorage(storageAvailable[i], h, cfg, localStorage)
  ELSE [storage |-> localStorage, reported |-> FALSE]

(* variant: the stored enabled entry is applied although the stored        *)
(* configuration did not parse                                             *)
loadConfigFromStorage_EnabledAnyway(available, h, cfg, storage) ==
  IF ~available \/ ~h[cfg.storage].enabled
  THEN [heap |-> h, cfg |-> cfg, reported |-> FALSE]
  ELSE IF ~storage.present
  THEN [heap |-> h, cfg |-> cfg, reported |-> TRUE]
  ELSE LET savedConfig == getItem(storage, h[cfg.storage].keyPrefix \o ConfigSuffix)
           savedEnabled == getItem(storage, h[cfg.storage].keyPrefix \o EnabledSuffix)
           wanted == IsDefined(savedConfig) /\ Get(savedConfig).text # ""
           parsed == IF wanted THEN JSONparse(Get(savedConfig))
                     ELSE [ok |-> TRUE, value |-> EmptyRecord]
       IN IF ~parsed.ok
          THEN [heap |-> h,
                cfg |-> IF IsDefined(savedEnabled)
                        THEN updateConfig(cfg,
                               [enabled |-> Get(savedEnabled).text = "true"])
                        ELSE cfg,
                reported |-> TRUE]
          ELSE LET m == Materialize(h, parsed.value,
                                    NestedFields \cap DOMAIN parsed.value,
                                    NestedOrder)
                   merged == updateConfig(cfg, m.cfg)
               IN [heap |-> m.heap,
                   cfg |-> IF IsDefined(savedEnabled)
                           THEN updateConfig(merged,
                                  [enabled |-> Get(savedEnabled).text = "true"])
                           ELSE merged,
                   reported |-> FALSE]

(* variant: the stored enabled entry is applied before the stored          *)
(* configuration                                                           *)
loadConfigFromStorage_EnabledFirst(available, h, cfg, storage) ==
  IF ~available \/ ~h[cfg.storage].enabled
  THEN [heap |-> h, cfg |-> cfg, reported |-> FALSE]
  ELSE IF ~storage.present
  THEN [heap |-> h, cfg |-> cfg, reported |-> TRUE]
  ELSE LET savedConfig == getItem(storage, h[cfg.storage].keyPrefix \o ConfigSuffix)
           savedEnabled == getItem(storage, h[cfg.storage].keyPrefix \o EnabledSuffix)
           wanted == IsDefined(savedConfig) /\ Get(savedConfig).text # ""
           parsed == IF wanted THEN JSONparse(Get(savedConfig))
                     ELSE [ok |-> TRUE, value |-> EmptyRecord]
       IN IF ~parsed.ok THEN [heap |-> h, cfg |-> cfg, reported |-> TRUE]
          ELSE LET m == Materialize(h, parsed.value,
                                    NestedFields \cap DOMAIN parsed.value,
                                    NestedOrder)
                   first == IF IsDefined(savedEnabled)
                            THEN updateConfig(cfg,
                                   [enabled |-> Get(savedEnabled).text = "true"])
                            ELSE cfg
               IN [heap |-> m.heap, cfg |-> updateConfig(first, m.cfg),
                   reported |-> FALSE]

(* BrowserLogger.loadConfigFromStorage: the outcome is the heap, the       *)
(* configuration and whether a failure was reported with console.error     *)
loadConfigFromStorage(available, h, cfg, storage) ==
  IF ~available \/ ~h[cfg.storage].enabled
  THEN [heap |-> h, cfg |-> cfg, reported |-> FALSE]
  ELSE IF ~storage.present
  THEN [heap |-> h, cfg |-> cfg, reported |-> TRUE]
  ELSE LET savedConfig == getItem(storage, h[cfg.storage].keyPrefix \o ConfigSuffix)
           savedEnabled == getItem(storage, h[cfg.storage].keyPrefix \o EnabledSuffix)
           wanted == IsDefined(savedConfig) /\ Get(savedConfig).text # ""
           parsed == IF wanted THEN JSONparse(Get(savedConfig))
                     ELSE [ok |-> TRUE, value |-> EmptyRecord]
       IN IF ~parsed.ok THEN [heap |-> h, cfg |-> cfg, reported |-> TRUE]
          ELSE LET m == Materialize(h, parsed.value,
                                    NestedFields \cap DOMAIN parsed.value,
                                    NestedOrder)
                   merged == updateConfig(cfg, m.cfg)
               IN [heap |-> m.heap,
                   cfg |-> IF IsDefined(savedEnabled)
                           THEN updateConfig(merged,
                                  [enabled |-> Get(savedEnabled).text = "true"])
                           ELSE merged,
                   reported |-> FALSE]

Constructed == DOMAIN config

(* new BaseLogger(initialConfig) / new NodeLogger(initialConfig)           *)
NewLogger(i, userConfig) ==
  /\ i \notin Constructed
  /\ IF detectEnvironmentThrows(ambient)
     THEN /\ last' = [op |-> "new", logger |-> i, threw |-> TRUE,
                      userConfig |-> userConfig]
          /\ UNCHANGED <<heap, config, recentLogs, accepted, environments>>
     ELSE LET r == Resolve(build, userConfig, ambient)
              m == Materialize(heap, r.cfg, r.fresh, NestedOrder)
          IN /\ heap' = m.heap
             /\ config' = config @@ (i :> m.cfg)
             /\ recentLogs' = recentLogs @@ (i :> EmptyRecord)
             /\ accepted' = accepted @@ (i :> EmptyRecord)
             /\ environments' =
                  (<<"this", i>> :> detectEnvironment(ambient)) @@ environments
             /\ last' = [op |-> "new", logger |-> i, threw |-> FALSE,
                         userConfig |-> userConfig]
  /\ UNCHANGED <<ambient, build, now, ticks, held, localStorage, storageAvailable,
                 win, console>>

(* namespace.replace('__', ''): the first occurrence is removed            *)
RECURSIVE RemoveFirstUnderscores(_)
RemoveFirstUnderscores(str) ==
  IF Len(str) < 2 THEN str
  ELSE IF str[1] = "_" /\ str[2] = "_" THEN SubSeq(str, 3, Len(str))
  ELSE <<str[1]>> \o RemoveFirstUnderscores(Tail(str))

capitalizeFirst(str) ==
  IF str = << >> THEN << >> ELSE toUpperCase(<<str[1]>>) \o Tail(str)

(* BrowserLogger.setupBrowserControls: the logger and three helper         *)
(* functions are put on window under names derived from the namespace      *)
setupBrowserControls(i, h, cfg, amb, w) ==
  IF ~h[cfg.browserControls].enabled \/ ~amb.hasWindow THEN w
  ELSE LET namespace == h[cfg.browserControls].windowNamespace
           bare == RemoveFirstUnderscores(namespace)
           enableFuncName ==
             <<"e","n","a","b","l","e">> \o capitalizeFirst(bare)
               \o <<"L","o","g","g","i","n","g">>
           disableFuncName ==
             <<"d","i","s","a","b","l","e">> \o capitalizeFirst(bare)
               \o <<"L","o","g","g","i","n","g">>
           statusFuncName ==
             bare \o <<"L","o","g","g","i","n","g","S","t","a","t","u","s">>
           names == <<namespace, enableFuncName, disableFuncName, statusFuncName>>
           roles == <<"logger", "enableAll", "disableAll", "status">>
       IN [n \in (DOMAIN w) \cup {names[k] : k \in 1..4} |->
             IF \E k \in 1..4 : names[k] = n
             THEN [logger |-> i,
                   role |-> roles[CHOOSE k \in 1..4 :
                                    names[k] = n
                                      /\ \A j \in (k + 1)..4 : names[j] # n]]
             ELSE w[n]]

(* new BrowserLogger(initialConfig): the BaseLogger constructor, then      *)
(* checkStorageAvailability, loadConfigFromStorage, setupBrowserControls   *)
NewBrowserLogger(i, userConfig) ==
  /\ i \notin Constructed
  /\ IF detectEnvironmentThrows(ambient)
     THEN /\ last' = [op |-> "new", logger |-> i, threw |-> TRUE,
                      userConfig |-> userConfig, kind |-> "browser"]
          /\ UNCHANGED <<heap, config, recentLogs, accepted, storageAvailable, win,
                         environments>>
     ELSE LET r == Resolve(build, userConfig, ambient)
              m == Materialize(heap, r.cfg, r.fresh, NestedOrder)
              available == checkStorageAvailability(ambient, localStorage)
              loaded == loadConfigFromStorage(available, m.heap, m.cfg, localStorage)
          IN /\ heap' = loaded.heap
             /\ config' = config @@ (i :> loaded.cfg)
             /\ recentLogs' = recentLogs @@ (i :> EmptyRecord)
             /\ accepted' = accepted @@ (i :> EmptyRecord)
             /\ environments' =
                  (<<"this", i>> :> detectEnvironment(ambient)) @@ environments
             /\ storageAvailable' = storageAvailable @@ (i :> available)
             /\ win' = setupBrowserControls(i, loaded.heap, loaded.cfg, ambient, win)
             /\ last' = [op |-> "new", logger |-> i, threw |-> FALSE,
                         userConfig |-> userConfig, kind |-> "browser",
                         resolved |-> View(m.heap, m.cfg),
                         reported |-> loaded.reported]
  /\ UNCHANGED <<ambient, build, now, ticks, held, localStorage, console>>

(* the storage quota is used up, or space is freed, by other code of the   *)
(* page                                                                    *)
SetQuota(isFull) ==
  /\ localStorage.present
  /\ localStorage.full # isFull
  /\ localStorage' = [localStorage EXCEPT !.full = isFull]
  /\ last' = [op |-> "quota"]
  /\ UNCHANGED <<ambient, build, heap, config, recentLogs, now, ticks, held,
                 accepted, storageAvailable, win, console, environments>>

(* The configuration operations.  On a BrowserLogger each one is           *)
(* overridden to call the BaseLogger method and then saveConfigToStorage;  *)
(* SavedBy dispatches on the class of logger i.                            *)
setLevel(i, level) ==
  /\ i \in Constructed
  /\ config' = [config EXCEPT ![i] =
                  updateConfig(@, [getConfig(i) EXCEPT !.minLevel = level])]
  /\ heap' = heap
  /\ localStorage' = SavedBy(i, heap', config'[i]).storage
  /\ last' = [op |-> "setLevel", logger |-> i, level |-> level,
              reported |-> SavedBy(i, heap', config'[i]).reported]
  /\ UNCHANGED <<ambient, build, recentLogs, now, ticks, held, accepted,
                 storageAvailable, win, console, environments>>

configure(i, newConfig) ==
  /\ i \in Constructed
  /\ config' = [config EXCEPT ![i] = updateConfig(@, newConfig)]
  /\ heap' = heap
  /\ localStorage' = SavedBy(i, heap', config'[i]).storage
  /\ last' = [op |-> "configure", logger |-> i, newConfig |-> newConfig,
              reported |-> SavedBy(i, heap', config'[i]).reported]
  /\ UNCHANGED <<ambient, build, recentLogs, now, ticks, held, accepted,
                 storageAvailable, win, console, environments>>

(* config.categories[category] = {...} writes into the object the          *)
(* internal configuration refers to                                        *)
enableCategory(i, category, minLevel) ==
  /\ i \in Constructed
  /\ LET cfg == getConfig(i)
     IN /\ heap' = [heap EXCEPT ![cfg.categories] =
                      SetEntry(@, category, [enabled |-> TRUE, minLevel |-> minLevel])]
        /\ config' = [config EXCEPT ![i] = updateConfig(@, cfg)]
  /\ localStorage' = SavedBy(i, heap', config'[i]).storage
  /\ last' = [op |-> "enableCategory", logger |-> i, category |-> category,
              minLevel |-> minLevel,
              reported |-> SavedBy(i, heap', config'[i]).reported]
  /\ UNCHANGED <<ambient, build, recentLogs, now, ticks, held, accepted,
                 storageAvailable, win, console, environments>>

disableCategory(i, category) ==
  /\ i \in Constructed
  /\ LET cfg == getConfig(i)
         map == heap[cfg.categories]
     IN /\ heap' =
             IF LookupTruthy(map, category)
             THEN IF HasOwn(map, category)
                  THEN [heap EXCEPT ![cfg.categories][category].enabled = FALSE]
                  ELSE heap   \* the write lands on the inherited function object
             ELSE [heap EXCEPT ![cfg.categories] =
                     SetEntry(@, category, [enabled |-> FALSE, minLevel |-> DEBUG])]
        /\ config' = [config EXCEPT ![i] = updateConfig(@, cfg)]
  /\ localStorage' = SavedBy(i, heap', config'[i]).storage
  /\ last' = [op |-> "disableCategory", logger |-> i, category |-> category,
              reported |-> SavedBy(i, heap', config'[i]).reported]
  /\ UNCHANGED <<ambient, build, recentLogs, now, ticks, held, accepted,
                 storageAvailable, win, console, environments>>

(* variant: the categories are left as they are                            *)
enableAll_GlobalOnly(i) ==
  /\ i \in DOMAIN config
  /\ LET cfg == [getConfig(i) EXCEPT !.enabled = TRUE, !.minLevel = DEBUG]
     IN config' = [config EXCEPT ![i] = updateConfig(@, cfg)]
  /\ last' = [op |-> "enableAll", logger |-> i, before |-> View(heap, config[i]),
              reported |-> FALSE]
  /\ UNCHANGED <<ambient, build, heap, recentLogs, now, ticks, held, accepted,
                 localStorage, storageAvailable, win, console, environments>>

enableAll(i) ==
  /\ i \in Constructed
  /\ LET cfg == [getConfig(i) EXCEPT !.enabled = TRUE, !.minLevel = DEBUG]
     IN /\ heap' = [heap EXCEPT ![cfg.categories] =
                      [c \in DOMAIN @ |-> [@[c] EXCEPT !.enabled = TRUE]]]
        /\ config' = [config EXCEPT ![i] = updateConfig(@, cfg)]
  /\ localStorage' = SavedBy(i, heap', config'[i]).storage
  /\ last' = [op |-> "enableAll", logger |-> i, before |-> View(heap, config[i]),
              reported |-> SavedBy(i, heap', config'[i]).reported]
  /\ UNCHANGED <<ambient, build, recentLogs, now, ticks, held, accepted,
                 storageAvailable, win, console, environments>>

(* variant: the global minimum level is raised to SILENT as well           *)
disableAll_AlsoSilent(i) ==
  /\ i \in DOMAIN config
  /\ LET cfg == [getConfig(i) EXCEPT !.enabled = FALSE, !.minLevel = SILENT]
     IN config' = [config EXCEPT ![i] = updateConfig(@, cfg)]
  /\ last' = [op |-> "disableAll", logger |-> i, before |-> View(heap, config[i]),
              reported |-> FALSE]
  /\ UNCHANGED <<ambient, build, heap, recentLogs, now, ticks, held, accepted,
                 localStorage, storageAvailable, win, console, environments>>

(* variant: the duplicate ledger is emptied as well                        *)
disableAll_ClearsLedger(i) ==
  /\ i \in DOMAIN config
  /\ LET cfg == [getConfig(i) EXCEPT !.enabled = FALSE]
     IN config' = [config EXCEPT ![i] = updateConfig(@, cfg)]
  /\ recentLogs' = [recentLogs EXCEPT ![i] = EmptyRecord]
  /\ last' = [op |-> "disableAll", logger |-> i, before |-> View(heap, config[i]),
              reported |-> FALSE]
  /\ UNCHANGED <<ambient, build, heap, now, ticks, held, accepted,
                 localStorage, storageAvailable, win, console, environments>>

disableAll(i) ==
  /\ i \in Constructed
  /\ LET cfg == [getConfig(i) EXCEPT !.enabled = FALSE]
     IN config' = [config EXCEPT ![i] = updateConfig(@, cfg)]
  /\ heap' = heap
  /\ localStorage' = SavedBy(i, heap', config'[i]).storage
  /\ last' = [op |-> "disableAll", logger |-> i, before |-> View(heap, config[i]),
              reported |-> SavedBy(i, heap', config'[i]).reported]
  /\ UNCHANGED <<ambient, build, recentLogs, now, ticks, held, accepted,
                 storageAvailable, win, console, environments>>

(* category || ''                                                          *)
OrEmpty(category) == IF Truthy(category) THEN Get(category) ELSE ""

(* formatTimestamp: the ISO rendering of the clock reading                 *)
formatTimestamp(t) == "T" \o ToString(t)

(* formatMessage: the parts present, joined by single spaces               *)
formatMessage(message, category, showTimestamp, t) ==
  (IF showTimestamp THEN "[" \o formatTimestamp(t) \o "] " ELSE "")
    \o (IF Truthy(category) THEN "[" \o Get(category) \o "] " ELSE "")
    \o message

createAnsiColor(colorCode) == "ESC[" \o ToString(colorCode) \o "m"

resetAnsiColor == "ESC[0m"

LevelNames == <<"debug", "info", "warn", "error">>

(* NodeLogger.outputLog: one console write, coloured when colours are on   *)
outputLog(cfg, colors, level, formattedMessage, args) ==
  [text |-> IF colors.enabled
            THEN createAnsiColor(colors.ansi[LevelNames[level + 1]])
                   \o formattedMessage \o resetAnsiColor
            ELSE formattedMessage,
   args |-> args]

(* variant: the stack is written whether or not stack traces are enabled   *)
StackTraceWanted_Always(cfg, level, message) ==
  level = ERROR /\ message.isError

(* level === LogLevel.ERROR && message instanceof Error                    *)
(* && config.includeStackTrace                                             *)
StackTraceWanted(cfg, level, message) ==
  level = ERROR /\ message.isError /\ cfg.includeStackTrace

(* outputStackTrace: if (error.stack) console.error(error.stack)           *)
outputStackTrace(error) ==
  IF Truthy(error.stack) THEN <<[text |-> Get(error.stack), args |-> << >>]>>
  ELSE << >>

(* debug() / info() / warn() / error(): BaseLogger.logWithLevel            *)
(* the ledger after a call: isDuplicateLog runs once the gate has passed   *)
(* and has set the entry before outputLog is called                        *)
LedgerAfter_BeforeGate(ledger, gate, d, sinkThrows) == d.ledger

LedgerAfter_RolledBack(ledger, gate, d, sinkThrows) ==
  IF gate = "pass" /\ ~(~d.duplicate /\ sinkThrows) THEN d.ledger ELSE ledger

LedgerAfter(ledger, gate, d, sinkThrows) ==
  IF gate = "pass" THEN d.ledger ELSE ledger

(* this.isDuplicateLog(message, category): the level is not passed on      *)
DuplicateCheck_PerLevel(ledger, level, message, category, t) ==
  isDuplicateLog(ledger, ToString(level) \o message.text, category, t)

DuplicateCheck(ledger, level, message, category, t) ==
  isDuplicateLog(ledger, message.text, category, t)

logWithLevel(i, level, message, category, args) ==
  /\ i \in Constructed
  /\ LET cfg == getConfig(i)
         gate == GateOf(cfg, heap[cfg.categories], level, category)
         d == DuplicateCheck(recentLogs[i], level, message, category, now)
         sinkThrows == level \in console
         written == gate = "pass" /\ ~d.duplicate /\ ~sinkThrows
         pair == <<message.text, OrEmpty(category)>>
         formattedMessage ==
           formatMessage(message.text, category, cfg.showTimestamp, now)
         writes ==
           IF written
           THEN <<outputLog(cfg, heap[cfg.colors], level, formattedMessage, args)>>
                  \o (IF StackTraceWanted(cfg, level, message)
                      THEN outputStackTrace(message) ELSE << >>)
           ELSE << >>
     IN /\ recentLogs' = [recentLogs EXCEPT
                           ![i] = LedgerAfter(@, gate, d, sinkThrows)]
        /\ accepted' = IF written
                       THEN [accepted EXCEPT ![i] =
                               [q \in (DOMAIN @) \cup {pair} |->
                                  IF q = pair THEN now ELSE @[q]]]
                       ELSE accepted
        /\ last' = [op |-> "log", logger |-> i, level |-> level,
                    text |-> message.text, category |-> category,
                    message |-> message, args |-> args,
                    gate |-> gate,
                    duplicate |-> (gate = "pass" /\ d.duplicate),
                    written |-> written,
                    threw |-> (gate = "pass" /\ ~d.duplicate /\ sinkThrows),
                    formatted |-> formattedMessage,
                    writes |-> writes,
                    stack |-> Len(writes) > 1,
                    at |-> now,
                    previous |-> IF pair \in DOMAIN accepted[i]
                                 THEN Some(accepted[i][pair]) ELSE Undefined]
  /\ UNCHANGED <<ambient, build, heap, config, now, ticks, held, localStorage, storageAvailable, win, console, environments>>

----------------------------------------------------------------------------
(* The calling code                                                        *)

(* cfg = logger.getConfig()                                                *)
CallerGetConfig(i) ==
  /\ i \in Constructed
  /\ held' = Some(getConfig(i))
  /\ last' = [op |-> "getConfig", logger |-> i]
  /\ UNCHANGED <<ambient, build, heap, config, recentLogs, now, ticks, accepted, localStorage, storageAvailable, win, console, environments>>

(* cfg.<field> = value on a returned configuration                         *)
CallerWriteTop(field, value) ==
  /\ IsDefined(held)
  /\ held' = Some([Get(held) EXCEPT ![field] = value])
  /\ last' = [op |-> "callerWrite", target |-> field]
  /\ UNCHANGED <<ambient, build, heap, config, recentLogs, now, ticks, accepted, localStorage, storageAvailable, win, console, environments>>

(* cfg.categories[name] = entry on a returned configuration                *)
CallerWriteCategory(name, entry) ==
  /\ IsDefined(held)
  /\ heap' = [heap EXCEPT ![Get(held).categories] = SetEntry(@, name, entry)]
  /\ last' = [op |-> "callerWrite", target |-> "categories"]
  /\ UNCHANGED <<ambient, build, config, recentLogs, now, ticks, held, accepted, localStorage, storageAvailable, win, console, environments>>

(* cfg.<section>.enabled = value on a returned configuration, for the      *)
(* colors, storage and browserControls sections                            *)
CallerWriteSection(section, value) ==
  /\ IsDefined(held)
  /\ heap' = [heap EXCEPT ![Get(held)[section]].enabled = value]
  /\ last' = [op |-> "callerWrite", target |-> section]
  /\ UNCHANGED <<ambient, build, config, recentLogs, now, ticks, held, accepted, localStorage, storageAvailable, win, console, environments>>

(* cfg.colors.ansi.<level> = code on a returned configuration              *)
CallerWritePalette(levelName, code) ==
  /\ IsDefined(held)
  /\ heap' = [heap EXCEPT ![Get(held).colors].ansi[levelName] = code]
  /\ last' = [op |-> "callerWrite", target |-> "colors.ansi"]
  /\ UNCHANGED <<ambient, build, config, recentLogs, now, ticks, held, accepted, localStorage, storageAvailable, win, console, environments>>

(* time passes                                                             *)
MaxTicks == 2
Tick(d) ==
  /\ ticks < MaxTicks
  /\ now' = now + d
  /\ ticks' = ticks + 1
  /\ last' = [op |-> "tick"]
  /\ UNCHANGED <<ambient, build, heap, config, recentLogs, held, accepted, localStorage, storageAvailable, win, console, environments>>

----------------------------------------------------------------------------
(* Inputs                                                                  *)

(* texts given to the environment variables                                *)
LevelTexts == {<<"W","A","R","N">>, <<"e","r","r","o","r">>,
               <<"I","N","V","A","L","I","D">>}
BooleanTexts == {<<"f","a","l","s","e">>, <<"T","r","u","e">>,
                 <<"m","a","y","b","e">>}
IntTexts == {<<"9","5">>, <<"n","o","t">>}
ColorTexts == {<<"r","e","d">>}
NameTexts == {<<"a","p","p">>}
ModeTexts == {<<"p","r","o","d","u","c","t","i","o","n">>,
              <<"d","e","v","e","l","o","p","m","e","n","t">>}

EnvTexts(key) ==
  CASE key = "NODE_ENV" -> ModeTexts
    [] key = "LOG_LEVEL" -> LevelTexts
    [] key \in {"LOGGER_ENABLED", "LOGGER_TIMESTAMPS", "LOGGER_STACK_TRACES",
                "LOGGER_COLORS", "LOGGER_STORAGE_ENABLED",
                "LOGGER_BROWSER_CONTROLS"} -> BooleanTexts
    [] key \in {"LOGGER_ANSI_DEBUG", "LOGGER_ANSI_INFO", "LOGGER_ANSI_WARN",
                "LOGGER_ANSI_ERROR"} -> IntTexts
    [] key \in {"LOGGER_COLOR_DEBUG", "LOGGER_COLOR_INFO", "LOGGER_COLOR_WARN",
                "LOGGER_COLOR_ERROR"} -> ColorTexts
    [] OTHER -> NameTexts

(* process.env maps: at most n of the given variables are set              *)
EnvMaps(keys, n) ==
  UNION {
    {e \in [S -> UNION {EnvTexts(k) : k \in S}] : \A k \in S : e[k] \in EnvTexts(k)}
    : S \in {T \in SUBSET keys : Cardinality(T) <= n}}

(* a server process with the given process.env                             *)
ServerWith(e) ==
  [hasWindow |-> FALSE, hasProcess |-> TRUE, hasEnv |-> TRUE, env |-> e]

(* the objects the calling code creates and passes in partial              *)
(* configurations; CallerRef is where the object for a section sits among  *)
(* them                                                                    *)
CallerRef(section) == CHOOSE k \in DOMAIN NestedOrder : NestedOrder[k] = section

CallerHeap(categoryMap) ==
  << categoryMap,
     [enabled |-> FALSE,
      browser |-> [debug |-> <<"r","e","d">>, info |-> <<"r","e","d">>,
                   warn |-> <<"r","e","d">>, error |-> <<"r","e","d">>],
      ansi |-> [debug |-> 30, info |-> 31, warn |-> 32, error |-> 33]],
     [enabled |-> TRUE, keyPrefix |-> <<"m","i","n","e">>],
     [enabled |-> FALSE, windowNamespace |-> <<"_","_","m","y">>] >>

(* the values a caller gives to one field of a partial configuration       *)
FieldValues(f) ==
  CASE f = "minLevel" -> LogLevel
    [] f \in {"enabled", "showTimestamp", "includeStackTrace"} -> BOOLEAN
    [] f \in NestedFields -> {CallerRef(f)}

(* partial configurations naming at most n of the given fields             *)
RECURSIVE PartialConfigs(_, _)
PartialConfigs(fields, n) ==
  IF fields = {} \/ n = 0 THEN {EmptyRecord}
  ELSE LET f == CHOOSE x \in fields : TRUE
       IN PartialConfigs(fields \ {f}, n)
          \cup {Spread(p, [g \in {f} |-> v]) :
                  v \in FieldValues(f), p \in PartialConfigs(fields \ {f}, n - 1)}

StartTime == 5000
StringMessage(t) == [text |-> t, isError |-> FALSE, stack |-> Undefined]

----------------------------------------------------------------------------
(* Construction: every runtime, both builds, one constructor call          *)
MaxEnvVars == 2
MaxUserFields == 1

Ambients ==
  {[hasWindow |-> w, hasProcess |-> FALSE, hasEnv |-> FALSE, env |-> EmptyRecord]
     : w \in BOOLEAN}
  \cup {[hasWindow |-> w, hasProcess |-> TRUE, hasEnv |-> FALSE, env |-> EmptyRecord]
     : w \in BOOLEAN}
  \cup {[hasWindow |-> w, hasProcess |-> TRUE, hasEnv |-> TRUE, env |-> e]
     : w \in BOOLEAN, e \in EnvMaps(EnvKeys \cup {"NODE_ENV"}, MaxEnvVars)}

InitResolve ==
  /\ ambient \in Ambients
  /\ build \in Builds
  /\ heap = CallerHeap([db |-> [enabled |-> TRUE, minLevel |-> WARN]])
  /\ config = EmptyRecord
  /\ recentLogs = EmptyRecord
  /\ now = StartTime
  /\ ticks = 0
  /\ held = Undefined
  /\ accepted = EmptyRecord
  /\ last = [op |-> "init"]
  /\ localStorage = NoLocalStorage
  /\ storageAvailable = EmptyRecord
  /\ win = EmptyRecord
  /\ console = {}
  /\ environments = EmptyRecord

NextResolve ==
  \/ \E u \in PartialConfigs(ConfigFields, MaxUserFields) : NewLogger(1, u)
  \/ CallerGetConfig(1)

SpecResolve == InitResolve /\ [][NextResolve]_vars

(* C1: right after construction, every top-level field that both an        *)
(* environment variable and the caller's partial configuration set has the *)
(* caller's value (base < environment < user).                             *)
EnvKeysOf(f) ==
  CASE f = "enabled" -> {"LOGGER_ENABLED"}
    [] f = "minLevel" -> {"LOG_LEVEL"}
    [] f = "showTimestamp" -> {"LOGGER_TIMESTAMPS"}
    [] f = "includeStackTrace" -> {"LOGGER_STACK_TRACES"}
    [] f = "categories" -> {}
    [] f = "colors" -> {"LOGGER_COLORS", "LOGGER_COLOR_DEBUG", "LOGGER_COLOR_INFO",
                        "LOGGER_COLOR_WARN", "LOGGER_COLOR_ERROR",
                        "LOGGER_ANSI_DEBUG", "LOGGER_ANSI_INFO",
                        "LOGGER_ANSI_WARN", "LOGGER_ANSI_ERROR"}
    [] f = "storage" -> {"LOGGER_STORAGE_ENABLED", "LOGGER_STORAGE_KEY_PREFIX"}
    [] f = "browserControls" -> {"LOGGER_BROWSER_CONTROLS", "LOGGER_WINDOW_NAMESPACE"}

SetByEnvironment(f) == \E k \in EnvKeysOf(f) : IsDefined(getEnvVar(ambient, k))

C1_UserBeatsEnvironment ==
  (last.op = "new" /\ ~last.threw) =>
    \A f \in DOMAIN last.userConfig :
      SetByEnvironment(f) => config[last.logger][f] = last.userConfig[f]

----------------------------------------------------------------------------
(* Resolution at construction: the runtime, the variables, the defaults    *)

(* the configuration of the logger of the last operation, references       *)
(* followed                                                                *)
LastView == View(heap, config[last.logger])


(* the variables process.env holds, as far as the resolver can read them   *)
EnvSet(k) == ambient.hasProcess /\ ambient.hasEnv /\ k \in DOMAIN ambient.env

LastBuilt == last.op = "new" /\ ~last.threw

(* C13: with neither a window nor a process global the descriptor is       *)
(* browser = false, server = false, development = true, production =       *)
(* false, and a logger constructed there has global minimum level DEBUG.   *)
C13_FailOpen ==
  (last.op = "new" /\ ~ambient.hasWindow /\ ~ambient.hasProcess) =>
     /\ detectEnvironment(ambient) =
          [isBrowser |-> FALSE, isNode |-> FALSE,
           isDevelopment |-> TRUE, isProduction |-> FALSE]
     /\ ("minLevel" \notin DOMAIN last.userConfig /\ ~last.threw)
          => LastView.minLevel = DEBUG

(* C14: construction raises in no ambient runtime state; with a process    *)
(* global that has no environment map the logger is built with enabled =   *)
(* true.                                                                   *)
C14_ConstructionNeverRaises ==
  last.op = "new" =>
     /\ ~last.threw
     /\ (ambient.hasProcess /\ ~ambient.hasEnv
           /\ "enabled" \notin DOMAIN last.userConfig) => LastView.enabled

(* the boolean variables, the top-level field each one belongs to and the  *)
(* value it resolves                                                       *)
BooleanEnvKeys ==
  {"LOGGER_ENABLED", "LOGGER_TIMESTAMPS", "LOGGER_STACK_TRACES",
   "LOGGER_COLORS", "LOGGER_STORAGE_ENABLED", "LOGGER_BROWSER_CONTROLS"}

TopFieldOf(k) ==
  CASE k = "LOGGER_ENABLED" -> "enabled"
    [] k = "LOGGER_TIMESTAMPS" -> "showTimestamp"
    [] k = "LOGGER_STACK_TRACES" -> "includeStackTrace"
    [] k = "LOGGER_COLORS" -> "colors"
    [] k = "LOGGER_STORAGE_ENABLED" -> "storage"
    [] k = "LOGGER_BROWSER_CONTROLS" -> "browserControls"

ResolvedBoolean(view, k) ==
  IF TopFieldOf(k) \in NestedFields THEN view[TopFieldOf(k)].enabled
  ELSE view[TopFieldOf(k)]

(* 'true' in every letter case                                             *)
TrueSpellings ==
  {<<a, b, c, d>> : a \in {"t","T"}, b \in {"r","R"}, c \in {"u","U"},
                    d \in {"e","E"}}

(* C15: a boolean variable set to a non-empty text that is not 'true' in   *)
(* any letter case resolves its field to false, not to the base default    *)
(* (for a field the caller did not supply).                                *)
C15_OtherBooleanTextIsFalse ==
  LastBuilt =>
     \A k \in BooleanEnvKeys :
        (EnvSet(k) /\ ambient.env[k] # << >> /\ ambient.env[k] \notin TrueSpellings
           /\ TopFieldOf(k) \notin DOMAIN last.userConfig)
          => ResolvedBoolean(LastView, k) = FALSE

C15_Witness ==
  /\ LastBuilt
  /\ EnvSet("LOGGER_ENABLED")
  /\ ambient.env["LOGGER_ENABLED"] = <<"m","a","y","b","e">>
  /\ "enabled" \notin DOMAIN last.userConfig
  /\ LastView.enabled = FALSE

AnsiEnvKeys ==
  [debug |-> "LOGGER_ANSI_DEBUG", info |-> "LOGGER_ANSI_INFO",
   warn |-> "LOGGER_ANSI_WARN", error |-> "LOGGER_ANSI_ERROR"]

(* a text made of decimal digits only, and its value                       *)
IsDecimal(v) == v # << >> /\ \A n \in DOMAIN v : IsDigit(v[n])

(* a text with no leading number at all                                    *)
IsNoNumber(v) == v # << >> /\ ~IsDigit(v[1]) /\ v[1] \notin {" ", "+", "-"}

(* C16: each ANSI colour variable on its own: a text that is no number     *)
(* leaves its palette entry at the compiled-in default, a decimal text     *)
(* sets exactly that entry, and an unset variable leaves the default,      *)
(* whatever the other three variables hold.                                *)
C16_AnsiEntriesIndependent ==
  (LastBuilt /\ "colors" \notin DOMAIN last.userConfig) =>
     \A n \in DOMAIN AnsiEnvKeys :
        LET k == AnsiEnvKeys[n]
            entry == LastView.colors.ansi[n]
        IN /\ ~EnvSet(k) => entry = DefaultAnsiColors[n]
           /\ (EnvSet(k) /\ IsNoNumber(ambient.env[k])) => entry = DefaultAnsiColors[n]
           /\ (EnvSet(k) /\ IsDecimal(ambient.env[k]))
                => entry = Get(parseInt(ambient.env[k]))

C16_Witness ==
  /\ LastBuilt /\ "colors" \notin DOMAIN last.userConfig
  /\ EnvSet("LOGGER_ANSI_DEBUG") /\ ambient.env["LOGGER_ANSI_DEBUG"] = <<"n","o","t">>
  /\ EnvSet("LOGGER_ANSI_WARN") /\ ambient.env["LOGGER_ANSI_WARN"] = <<"9","5">>
  /\ LastView.colors.ansi = [debug |-> 36, info |-> 36, warn |-> 95, error |-> 31]

(* C17: with no variable set and no caller configuration the resolved      *)
(* configuration follows the environment descriptor alone.                 *)
C17_RuntimeAwareDefaults ==
  (LastBuilt /\ last.userConfig = EmptyRecord
     /\ \A k \in EnvKeys : ~EnvSet(k)) =>
     LET environment == detectEnvironment(ambient)
     IN /\ LastView.minLevel = (IF environment.isDevelopment THEN DEBUG ELSE WARN)
        /\ LastView.colors.enabled
             = (environment.isBrowser \/ environment.isDevelopment)
        /\ LastView.storage.enabled = environment.isBrowser
        /\ LastView.browserControls.enabled
             = (environment.isBrowser /\ environment.isDevelopment)
        /\ LastView.enabled /\ LastView.showTimestamp /\ LastView.includeStackTrace
        /\ LastView.categories = EmptyRecord

C17_Witness ==
  /\ LastBuilt /\ last.userConfig = EmptyRecord
  /\ \A k \in EnvKeys : ~EnvSet(k)
  /\ ~ambient.hasWindow /\ EnvSet("NODE_ENV")
  /\ ambient.env["NODE_ENV"] = <<"p","r","o","d","u","c","t","i","o","n">>
  /\ LastView.minLevel = WARN /\ ~LastView.colors.enabled

----------------------------------------------------------------------------
(* Boolean variables that are present but empty                            *)
BlankTexts == {<< >>, <<"f","a","l","s","e">>, <<"T","r","u","e">>}

(* a server process in which at most one boolean variable is set           *)
BlankAmbients ==
  {ServerWith(EmptyRecord)}
    \cup {ServerWith(k :> t) : k \in BooleanEnvKeys, t \in BlankTexts}

InitBlank ==
  /\ ambient \in BlankAmbients
  /\ build \in Builds
  /\ heap = CallerHeap([db |-> [enabled |-> TRUE, minLevel |-> WARN]])
  /\ config = EmptyRecord
  /\ recentLogs = EmptyRecord
  /\ now = StartTime
  /\ ticks = 0
  /\ held = Undefined
  /\ accepted = EmptyRecord
  /\ last = [op |-> "init"]
  /\ localStorage = NoLocalStorage
  /\ storageAvailable = EmptyRecord
  /\ win = EmptyRecord
  /\ console = {}
  /\ environments = EmptyRecord

SpecBlank == InitBlank /\ [][NextResolve]_vars

(* C29: a boolean variable that is present with the empty string as its    *)
(* value resolves its field to false; only an absent variable leaves the   *)
(* base default (for a field the caller did not supply).                   *)
C29_EmptyBooleanIsFalse ==
  LastBuilt =>
     \A k \in BooleanEnvKeys :
        (EnvSet(k) /\ ambient.env[k] = << >>
           /\ TopFieldOf(k) \notin DOMAIN last.userConfig)
          => ResolvedBoolean(LastView, k) = FALSE

----------------------------------------------------------------------------
(* The texts LOG_LEVEL can hold                                            *)
LogLevelTexts ==
  {<< >>, <<"d","e","b","u","g">>, <<"I","n","f","o">>, <<"W","A","R","N">>,
   <<"e","R","R","o","R">>, <<"s","i","l","e","n","t">>,
   <<"I","N","V","A","L","I","D","_","L","E","V","E","L">>,
   <<"w","a","r","n","i","n","g">>, <<" ","w","a","r","n">>, <<"0">>, <<"4">>}

LogLevelEnvs ==
  {EmptyRecord}
    \cup {("LOG_LEVEL" :> t) : t \in LogLevelTexts}
    \cup {("NODE_ENV" :> m) : m \in ModeTexts}
    \cup {("LOG_LEVEL" :> t) @@ ("NODE_ENV" :> m) :
            t \in LogLevelTexts, m \in ModeTexts}

LogLevelAmbients ==
  {[hasWindow |-> w, hasProcess |-> TRUE, hasEnv |-> TRUE, env |-> e]
     : w \in BOOLEAN, e \in LogLevelEnvs}
  \cup {[hasWindow |-> w, hasProcess |-> p, hasEnv |-> FALSE, env |-> EmptyRecord]
     : w \in BOOLEAN, p \in BOOLEAN}

InitLogLevel ==
  /\ ambient \in LogLevelAmbients
  /\ build \in Builds
  /\ heap = CallerHeap([db |-> [enabled |-> TRUE, minLevel |-> WARN]])
  /\ config = EmptyRecord
  /\ recentLogs = EmptyRecord
  /\ now = StartTime
  /\ ticks = 0
  /\ held = Undefined
  /\ accepted = EmptyRecord
  /\ last = [op |-> "init"]
  /\ localStorage = NoLocalStorage
  /\ storageAvailable = EmptyRecord
  /\ win = EmptyRecord
  /\ console = {}
  /\ environments = EmptyRecord

SpecLogLevel == InitLogLevel /\ [][NextResolve]_vars

(* the level a text names when letter case is ignored                      *)
NamedLevel(text) ==
  LET lower == toLowerCase(text)
  IN IF lower = <<"d","e","b","u","g">> THEN Some(DEBUG)
     ELSE IF lower = <<"i","n","f","o">> THEN Some(INFO)
     ELSE IF lower = <<"w","a","r","n">> THEN Some(WARN)
     ELSE IF lower = <<"e","r","r","o","r">> THEN Some(ERROR)
     ELSE IF lower = <<"s","i","l","e","n","t">> THEN Some(SILENT)
     ELSE Undefined

(* C36: LOG_LEVEL sets the global minimum level exactly when its value is  *)
(* one of DEBUG, INFO, WARN, ERROR, SILENT ignoring letter case; any other *)
(* value, or its absence, makes no override and raises nothing, so with no *)
(* caller level the minimum level is the base default: DEBUG in            *)
(* development, WARN in production.                                        *)
C36_LogLevelVariable ==
  /\ (last.op = "new" /\ last.threw) => (ambient.hasProcess /\ ~ambient.hasEnv)
  /\ (LastBuilt /\ "minLevel" \notin DOMAIN last.userConfig) =>
       LET named == IF EnvSet("LOG_LEVEL")
                    THEN NamedLevel(ambient.env["LOG_LEVEL"]) ELSE Undefined
       IN LastView.minLevel =
            IF IsDefined(named) THEN Get(named)
            ELSE IF detectEnvironment(ambient).isDevelopment THEN DEBUG ELSE WARN

(* LOG_LEVEL=eRRoR in production, no caller level: ERROR                   *)
C36_Witness ==
  /\ LastBuilt /\ "minLevel" \notin DOMAIN last.userConfig
  /\ EnvSet("LOG_LEVEL") /\ EnvSet("NODE_ENV")
  /\ ambient.env["LOG_LEVEL"] = <<"e","R","R","o","R">>
  /\ ambient.env["NODE_ENV"] = <<"p","r","o","d","u","c","t","i","o","n">>
  /\ LastView.minLevel = ERROR

----------------------------------------------------------------------------
(* The level comparison called on its own                                  *)
UtilAmbients == {a \in Ambients : a.env = EmptyRecord}

InitUtils ==
  /\ ambient \in UtilAmbients
  /\ build \in Builds
  /\ heap = CallerHeap([db |-> [enabled |-> TRUE, minLevel |-> WARN]])
  /\ config = EmptyRecord
  /\ recentLogs = EmptyRecord
  /\ now = StartTime
  /\ ticks = 0
  /\ held = Undefined
  /\ accepted = EmptyRecord
  /\ last = [op |-> "init"]
  /\ localStorage = NoLocalStorage
  /\ storageAvailable = EmptyRecord
  /\ win = EmptyRecord
  /\ console = {}
  /\ environments = EmptyRecord

(* isLoggingEnabled(currentLevel, messageLevel, globalEnabled)             *)
CallIsLoggingEnabled(currentLevel, messageLevel, globalEnabled) ==
  /\ last' = [op |-> "isLoggingEnabled", currentLevel |-> currentLevel,
              messageLevel |-> messageLevel, globalEnabled |-> globalEnabled,
              result |-> isLoggingEnabled(currentLevel, messageLevel, globalEnabled)]
  /\ UNCHANGED <<ambient, build, heap, config, recentLogs, now, ticks, held,
                 accepted, localStorage, storageAvailable, win, console, environments>>

(* detectEnvironment()                                                     *)
CallDetectEnvironment ==
  /\ ~detectEnvironmentThrows(ambient)
  /\ last' = [op |-> "detectEnvironment", result |-> detectEnvironment(ambient)]
  /\ UNCHANGED <<ambient, build, heap, config, recentLogs, now, ticks, held,
                 accepted, localStorage, storageAvailable, win, console, environments>>

NextUtils ==
  \/ \E c \in LogLevel, m \in LogLevel, g \in BOOLEAN : CallIsLoggingEnabled(c, m, g)
  \/ CallDetectEnvironment

SpecUtils == InitUtils /\ [][NextUtils]_vars

(* C28: isLoggingEnabled returns false whenever either level argument is   *)
(* SILENT (threshold ERROR with message level SILENT and the flag on gives *)
(* false).                                                                 *)
C28_SilentArgumentIsFalse ==
  (last.op = "isLoggingEnabled"
     /\ (last.currentLevel = SILENT \/ last.messageLevel = SILENT))
    => last.result = FALSE

----------------------------------------------------------------------------
(* The gate: one logger, every configuration operation, every logging call *)
(* at one instant                                                          *)
GateCategoryNames == {"db", "toString"}
GateCallCategories == {Undefined, Some("db"), Some("toString")}
GateEnableInputs == {<<"db", l>> : l \in LogLevel} \cup {<<"toString", INFO>>}
GateUserConfigs == {EmptyRecord}
GateUpdates == {[enabled |-> TRUE], [enabled |-> FALSE, minLevel |-> INFO]}

Init ==
  /\ ambient = ServerWith(EmptyRecord)
  /\ build \in Builds
  /\ heap = CallerHeap([db |-> [enabled |-> TRUE, minLevel |-> WARN]])
  /\ config = EmptyRecord
  /\ recentLogs = EmptyRecord
  /\ now = StartTime
  /\ ticks = 0
  /\ held = Undefined
  /\ accepted = EmptyRecord
  /\ last = [op |-> "init"]
  /\ localStorage = NoLocalStorage
  /\ storageAvailable = EmptyRecord
  /\ win = EmptyRecord
  /\ console = {}
  /\ environments = EmptyRecord

Next ==
  \/ \E u \in GateUserConfigs : NewLogger(1, u)
  \/ \E l \in LogLevel : setLevel(1, l)
  \/ \E p \in GateUpdates : configure(1, p)
  \/ \E e \in GateEnableInputs : enableCategory(1, e[1], e[2])
  \/ \E c \in GateCategoryNames : disableCategory(1, c)
  \/ enableAll(1)
  \/ disableAll(1)
  \/ \E l \in CallLevels, c \in GateCallCategories :
       logWithLevel(1, l, StringMessage("m"), c, << >>)

Spec == Init /\ [][Next]_vars

(* the times at which logger i wrote a call whose ledger key is key        *)
AcceptTimes(i, key) ==
  {accepted[i][q] : q \in {x \in DOMAIN accepted[i] :
                             DuplicateKey(x[1], Some(x[2])) = key}}

LastAccept(i, key) ==
  CHOOSE t \in AcceptTimes(i, key) : \A u \in AcceptTimes(i, key) : u <= t

(* the last logging call named a category that has an entry in the map     *)
LastHasOverride ==
  Truthy(last.category) /\ HasOwn(LastView.categories, Get(last.category))

LastOverride == LastView.categories[Get(last.category)]

(* C5: with the global flag on, a call whose category has an override is   *)
(* stopped by the gate iff the override is disabled, or the level is below *)
(* the override's minimum, or that minimum is SILENT; the global minimum   *)
(* level plays no part, and a call that passes and is no duplicate is      *)
(* written.                                                                *)
C5_OverrideAloneGates ==
  (last.op = "log" /\ LastView.enabled /\ LastHasOverride) =>
     /\ (last.gate # "pass") <=>
          (~LastOverride.enabled \/ last.level < LastOverride.minLevel
             \/ LastOverride.minLevel = SILENT)
     /\ last.written <=> (last.gate = "pass" /\ ~last.duplicate)

C5_Witness ==
  /\ last.op = "log" /\ LastView.enabled /\ LastHasOverride
  /\ LastView.minLevel = WARN
  /\ LastOverride = [enabled |-> TRUE, minLevel |-> DEBUG]
  /\ last.level = DEBUG
  /\ last.written

(* C6: while the global flag is off every logging call is suppressed: no   *)
(* sink write and no stack write, whatever the level and the category.     *)
C6_DisabledSuppressesAll ==
  (last.op = "log" /\ ~LastView.enabled) =>
     (~last.written /\ ~last.stack /\ last.gate = "disabled")

C6_Witness ==
  /\ last.op = "log" /\ ~LastView.enabled
  /\ LastHasOverride
  /\ LastOverride = [enabled |-> TRUE, minLevel |-> DEBUG]
  /\ last.level = ERROR
  /\ ~last.written

(* C7: while the global minimum level is SILENT, a call whose category is  *)
(* absent or has no override is suppressed at every level.                 *)
C7_SilentSuppressesAll ==
  (last.op = "log" /\ LastView.minLevel = SILENT /\ ~LastHasOverride) =>
     (~last.written /\ last.gate # "pass")

C7_Witness ==
  /\ last.op = "log" /\ LastView.enabled /\ LastView.minLevel = SILENT
  /\ ~LastHasOverride
  /\ last.level = ERROR
  /\ ~last.written

(* C8: with the global flag on, global minimum level L2 and no override    *)
(* for the call's category, a call below L2 is suppressed and a call at L2 *)
(* that is not a duplicate is written.                                     *)
C8_ThresholdGates ==
  (last.op = "log" /\ LastView.enabled /\ ~LastHasOverride
     /\ LastView.minLevel \in CallLevels) =>
     /\ last.level < LastView.minLevel => ~last.written
     /\ (last.level = LastView.minLevel /\ ~last.duplicate) => last.written

(* C9: after enableAll() the global flag is on, the global minimum level   *)
(* is DEBUG, every category that had an override is enabled with its       *)
(* minimum level unchanged, no category is added or removed, and every     *)
(* other field is unchanged.                                               *)
C9_EnableAll ==
  last.op = "enableAll" =>
     /\ LastView.enabled /\ LastView.minLevel = DEBUG
     /\ DOMAIN LastView.categories = DOMAIN last.before.categories
     /\ \A c \in DOMAIN LastView.categories :
          /\ LastView.categories[c].enabled
          /\ LastView.categories[c].minLevel = last.before.categories[c].minLevel
     /\ \A f \in ConfigFields \ {"enabled", "minLevel", "categories"} :
          LastView[f] = last.before[f]

C9_Witness ==
  /\ last.op = "enableAll"
  /\ ~last.before.enabled /\ last.before.minLevel = ERROR
  /\ \E c \in DOMAIN last.before.categories :
       /\ ~last.before.categories[c].enabled
       /\ last.before.categories[c].minLevel = WARN
       /\ LastView.categories[c] = [enabled |-> TRUE, minLevel |-> WARN]

(* C10: disableAll() changes the global flag to false and nothing else.    *)
C10_DisableAll ==
  last.op = "disableAll" =>
     LastView = [last.before EXCEPT !.enabled = FALSE]

C10_Witness ==
  /\ last.op = "disableAll"
  /\ last.before.enabled /\ ~LastView.enabled
  /\ last.before.minLevel = WARN
  /\ \E c \in DOMAIN LastView.categories : LastView.categories[c].enabled

(* C24: a call stopped by the gate writes nothing to the sink and leaves   *)
(* the duplicate ledger unchanged; a call with the same text and category  *)
(* made right after it that passes the gate is accepted (no accepted call  *)
(* under its ledger entry being younger than the window).                  *)
C24_GateSuppressedLeavesLedger ==
  [][/\ (last'.op = "log" /\ last'.gate # "pass") =>
          /\ last'.writes = << >>
          /\ recentLogs' = recentLogs
          /\ accepted' = accepted
     /\ (/\ last.op = "log" /\ last.gate # "pass"
         /\ last'.op = "log" /\ last'.gate = "pass"
         /\ last'.logger = last.logger
         /\ last'.text = last.text
         /\ last'.category = last.category
         /\ LET key == DuplicateKey(last.text, last.category)
            IN \/ AcceptTimes(last.logger, key) = {}
               \/ now - LastAccept(last.logger, key) >= duplicateThreshold)
          => last'.written]_vars

C24_Witness ==
  /\ last.op = "log" /\ last.gate # "pass"
  /\ LastView.enabled
  /\ DuplicateKey(last.text, last.category) \notin DOMAIN recentLogs[last.logger]

(* C34: logging calls never change the effective configuration; the       *)
(* configuration operations never add, remove or refresh ledger entries;   *)
(* setLevel(L) changes only the global minimum level.  So an entry made    *)
(* before disableAll(); enableAll() still suppresses a repeat within the   *)
(* window.                                                                 *)
C34_LoggingAndConfigurationAreSeparate ==
  [][/\ last'.op = "log" =>
          \A i \in Constructed : View(heap', config'[i]) = View(heap, config[i])
     /\ last'.op \in {"setLevel", "configure", "enableCategory",
                      "disableCategory", "enableAll", "disableAll"}
          => recentLogs' = recentLogs
     /\ last'.op = "setLevel" =>
          View(heap', config'[last'.logger])
            = [View(heap, config[last'.logger]) EXCEPT !.minLevel = last'.level]
     /\ (last'.op = "log" /\ last'.gate = "pass"
           /\ DuplicateKey(last'.text, last'.category)
                \in DOMAIN recentLogs[last'.logger]
           /\ now - recentLogs[last'.logger]
                      [DuplicateKey(last'.text, last'.category)]
                < duplicateThreshold)
          => last'.duplicate]_vars

(* enableAll() has just undone disableAll() and the entry of a message     *)
(* written before the two is still in the ledger                           *)
C34_Witness ==
  /\ last.op = "enableAll" /\ ~last.before.enabled
  /\ DuplicateKey("m", Some("db")) \in DOMAIN recentLogs[last.logger]
  /\ <<"m", "db">> \in DOMAIN accepted[last.logger]
  /\ LastView.enabled

(* C35: enableCategory(c, L) sets the override of c to {enabled: true,     *)
(* minLevel: L}, replacing any previous one; disableCategory(c) sets       *)
(* enabled to false on an existing override and keeps its minimum level,   *)
(* or creates {enabled: false, minLevel: DEBUG} when c had none; both      *)
(* leave every other override and every other field unchanged.             *)
C35_CategoryOperations ==
  [][last'.op \in {"enableCategory", "disableCategory"} =>
       LET i == last'.logger
           c == last'.category
           before == View(heap, config[i])
           after == View(heap', config'[i])
       IN /\ c \in DOMAIN after.categories
          /\ last'.op = "enableCategory" =>
               after.categories[c]
                 = [enabled |-> TRUE, minLevel |-> last'.minLevel]
          /\ last'.op = "disableCategory" =>
               after.categories[c]
                 = IF c \in DOMAIN before.categories
                   THEN [before.categories[c] EXCEPT !.enabled = FALSE]
                   ELSE [enabled |-> FALSE, minLevel |-> DEBUG]
          /\ DOMAIN after.categories = (DOMAIN before.categories) \cup {c}
          /\ \A k \in (DOMAIN before.categories) \ {c} :
               after.categories[k] = before.categories[k]
          /\ [after EXCEPT !.categories = before.categories] = before]_vars

----------------------------------------------------------------------------
(* The empty string as a category name                                     *)

EmptyCategoryNames == {"", "db"}
EmptyCallCategories == {Undefined, Some(""), Some("db")}

NextEmpty ==
  \/ NewLogger(1, EmptyRecord)
  \/ \E l \in LogLevel : setLevel(1, l)
  \/ \E c \in EmptyCategoryNames, l \in {DEBUG, ERROR} : enableCategory(1, c, l)
  \/ \E c \in EmptyCategoryNames : disableCategory(1, c)
  \/ disableAll(1)
  \/ \E l \in CallLevels, c \in EmptyCallCategories :
       logWithLevel(1, l, StringMessage("m"), c, << >>)

SpecEmpty == Init /\ [][NextEmpty]_vars

(* the decision the global flag and the global minimum level give          *)
GlobalGate(view, level) ==
  IF ~view.enabled THEN "disabled"
  ELSE IF level < view.minLevel THEN "global-level"
  ELSE "pass"

(* C33: a call whose category is absent or the empty string is gated by    *)
(* the global minimum level even when the map holds an override under the  *)
(* empty-string name; enableCategory('') and disableCategory('') add an    *)
(* entry and change no gating decision.                                    *)
C33_EmptyCategoryIsGlobal ==
  [][/\ (last'.op = "log" /\ ~(IsDefined(last'.category)
                                 /\ Get(last'.category) # ""))
          => last'.gate = GlobalGate(View(heap, config[last'.logger]), last'.level)
     /\ (last'.op \in {"enableCategory", "disableCategory"}
           /\ last'.category = "")
          => LET i == last'.logger
             IN /\ "" \in DOMAIN heap'[config'[i].categories]
                /\ \A l \in CallLevels, c \in EmptyCallCategories :
                     GateOf(config'[i], heap'[config'[i].categories], l, c)
                       = GateOf(config[i], heap[config[i].categories], l, c)]_vars

(* a DEBUG call with category '' is written although the entry under ''    *)
(* is disabled                                                             *)
C33_Witness ==
  /\ last.op = "log" /\ last.category = Some("") /\ last.level = DEBUG
  /\ last.written
  /\ "" \in DOMAIN LastView.categories
  /\ ~LastView.categories[""].enabled

----------------------------------------------------------------------------
(* The calling code reads the configuration and writes into what it got    *)
InitCaller ==
  /\ ambient = ServerWith(EmptyRecord)
  /\ build \in Builds
  /\ heap = CallerHeap([db |-> [enabled |-> TRUE, minLevel |-> WARN]])
  /\ config = EmptyRecord
  /\ recentLogs = EmptyRecord
  /\ now = StartTime
  /\ ticks = 0
  /\ held = Undefined
  /\ accepted = EmptyRecord
  /\ last = [op |-> "init"]
  /\ localStorage = NoLocalStorage
  /\ storageAvailable = EmptyRecord
  /\ win = EmptyRecord
  /\ console = {}
  /\ environments = EmptyRecord

NextCaller ==
  \/ NewLogger(1, EmptyRecord)
  \/ \E l \in {DEBUG, ERROR} : setLevel(1, l)
  \/ enableCategory(1, "db", INFO)
  \/ disableCategory(1, "db")
  \/ enableAll(1)
  \/ disableAll(1)
  \/ \E l \in {DEBUG, ERROR}, c \in {Undefined, Some("db")} :
       logWithLevel(1, l, StringMessage("m"), c, << >>)
  \/ CallerGetConfig(1)
  \/ \E v \in BOOLEAN : CallerWriteTop("enabled", v)
  \/ CallerWriteTop("minLevel", SILENT)
  \/ CallerWriteCategory("db", [enabled |-> FALSE, minLevel |-> SILENT])
  \/ \E sec \in {"colors", "storage", "browserControls"} :
       CallerWriteSection(sec, FALSE)
  \/ CallerWritePalette("debug", 91)

SpecCaller == InitCaller /\ [][NextCaller]_vars

(* C2: whatever the caller writes into a configuration it got from         *)
(* getConfig(), at the top level or inside a nested structure, every later *)
(* getConfig() (and so every later gating decision) is as before.          *)
C2_ReturnedConfigIsACopy ==
  [][last'.op = "callerWrite" =>
       \A i \in DOMAIN config : View(heap', config'[i]) = View(heap, config[i])]_vars

----------------------------------------------------------------------------
(* Two loggers, possibly built from the same partial configuration value   *)
InstanceOps == {"setLevel", "configure", "enableCategory", "disableCategory",
                "enableAll", "disableAll", "log"}

NextInstances ==
  \/ \E i \in {1, 2}, u \in {EmptyRecord, [categories |-> CallerRef("categories")]} :
       NewLogger(i, u)
  \/ \E i \in {1, 2} : setLevel(i, ERROR)
  \/ \E i \in {1, 2} : configure(i, [showTimestamp |-> FALSE])
  \/ \E i \in {1, 2} : enableCategory(i, "db", DEBUG)
  \/ \E i \in {1, 2} : disableCategory(i, "db")
  \/ \E i \in {1, 2} : enableAll(i)
  \/ \E i \in {1, 2} : disableAll(i)
  \/ \E i \in {1, 2} : logWithLevel(i, ERROR, StringMessage("m"), Some("db"), << >>)

SpecInstances == InitCaller /\ [][NextInstances]_vars

(* C3: no configuration operation and no logging call on one logger        *)
(* changes what getConfig() returns on another logger, nor its ledger (and *)
(* so none of its accept/suppress decisions).                              *)
C3_InstancesAreIndependent ==
  [][\A j \in DOMAIN config :
       (last'.op \in InstanceOps /\ last'.logger # j) =>
          /\ View(heap', config'[j]) = View(heap, config[j])
          /\ recentLogs'[j] = recentLogs[j]]_vars

----------------------------------------------------------------------------
(* Duplicate suppression: one logger, the clock advances                   *)
DedupTexts == {"a", "a:b"}
DedupCategories == {Some("c"), Some("b:c")}
TickSteps == {999, 1001}

NextDedup ==
  \/ NewLogger(1, EmptyRecord)
  \/ \E l \in {DEBUG, WARN} : setLevel(1, l)
  \/ \E t \in DedupTexts, c \in DedupCategories :
       logWithLevel(1, INFO, StringMessage(t), c, << >>)
  \/ \E d \in TickSteps : Tick(d)

SpecDedup == InitCaller /\ [][NextDedup]_vars

(* C4: a gate-eligible call is suppressed when a call with the same text   *)
(* and the same category was accepted less than the window before it, and  *)
(* accepted when the last such call was accepted more than the window      *)
(* before it; a call with the same text in another category never          *)
(* suppresses it.                                                          *)
SameTextOtherCategoryAccepted ==
  \E q \in DOMAIN accepted[last.logger] :
     q[1] = last.text /\ q[2] # OrEmpty(last.category)

C4_DuplicateWindow ==
  (last.op = "log" /\ last.gate = "pass") =>
     /\ (IsDefined(last.previous) /\ last.at - Get(last.previous) < duplicateThreshold)
          => ~last.written
     /\ (IsDefined(last.previous) /\ last.at - Get(last.previous) > duplicateThreshold)
          => last.written
     /\ (~IsDefined(last.previous) /\ SameTextOtherCategoryAccepted)
          => last.written

(* C22: a call is suppressed as a duplicate only when an earlier call with *)
(* exactly the same text and the same category was accepted less than the  *)
(* window before it; calls whose (text, category) pairs differ never       *)
(* suppress one another.                                                   *)
C22_OnlyTheSamePairSuppresses ==
  (last.op = "log" /\ last.duplicate) =>
     /\ IsDefined(last.previous)
     /\ last.at - Get(last.previous) < duplicateThreshold

(* C23: the ledger entry of a call holds the time of the last accepted     *)
(* call under it and a suppressed duplicate does not refresh it: a call    *)
(* that passes the gate is suppressed exactly when the last accept is less *)
(* than the window old, so calls at t0 < t1 < t2 with t1 - t0 under the    *)
(* window and t2 - t0 at or over it are accepted, suppressed, accepted.    *)
C23_SuppressedCallDoesNotRefresh ==
  [][(last'.op = "log" /\ last'.gate = "pass") =>
       LET i == last'.logger
           key == DuplicateKey(last'.text, last'.category)
           fresh == AcceptTimes(i, key) = {}
       IN /\ last'.written <=>
               (fresh \/ now - LastAccept(i, key) >= duplicateThreshold)
          /\ key \in DOMAIN recentLogs'[i]
          /\ recentLogs'[i][key] =
               IF last'.written THEN now ELSE LastAccept(i, key)]_vars

C23_Witness ==
  /\ last.op = "log" /\ last.duplicate
  /\ IsDefined(last.previous)
  /\ last.at > Get(last.previous)
  /\ recentLogs[last.logger][DuplicateKey(last.text, last.category)]
       = Get(last.previous)

----------------------------------------------------------------------------
(* A console whose methods can raise                                       *)

(* global.console = brokenConsole                                          *)
SetConsole(broken) ==
  /\ console' = broken
  /\ last' = [op |-> "console"]
  /\ UNCHANGED <<ambient, build, heap, config, recentLogs, now, ticks, held,
                 accepted, localStorage, storageAvailable, win,
                 environments>>

BrokenConsoles == {{}, {INFO}}

NextSink ==
  \/ NewLogger(1, EmptyRecord)
  \/ \E l \in {DEBUG, WARN} : setLevel(1, l)
  \/ \E l \in {INFO, WARN} : logWithLevel(1, l, StringMessage("a"), Undefined, << >>)
  \/ \E b \in BrokenConsoles : SetConsole(b)
  \/ \E d \in TickSteps : Tick(d)

SpecSink == InitCaller /\ [][NextSink]_vars

(* the next call repeats the last one: same logger, text and category      *)
RepeatsLast ==
  /\ last.op = "log" /\ last'.op = "log"
  /\ last'.logger = last.logger
  /\ last'.text = last.text
  /\ last'.category = last.category

(* C25: the ledger entry is refreshed before the sink is invoked and is    *)
(* not rolled back: when the sink raises, the exception reaches the caller,*)
(* nothing is written, the entry holds the time of the call, and an        *)
(* identical call within the window is suppressed as a duplicate.          *)
C25_LedgerKeptWhenSinkRaises ==
  [][/\ (last'.op = "log" /\ last'.threw) =>
          /\ last'.writes = << >>
          /\ DuplicateKey(last'.text, last'.category) \in DOMAIN recentLogs'[last'.logger]
          /\ recentLogs'[last'.logger][DuplicateKey(last'.text, last'.category)] = now
     /\ (RepeatsLast /\ last.threw /\ last'.gate = "pass") =>
          (last'.duplicate /\ ~last'.written /\ ~last'.threw)]_vars

C25_Witness ==
  /\ last.op = "log" /\ last.duplicate /\ last.level = WARN
  /\ ~IsDefined(last.previous)
  /\ INFO \in console

----------------------------------------------------------------------------
(* The ledger sweep: many distinct messages, the clock advances            *)

(* `Message ${k}`                                                          *)
Message(k) == "Message " \o ToString(k)

(* for (k = from; k < from + n; k++) logger.info(`Message ${k}`): the      *)
(* loops the calling code runs, first index -> number of messages          *)
LoopSizes == (0 :> 150) @@ (1000 :> 5) @@ (2000 :> 1)

(* the indices after which the running loop has another message to log     *)
Unfinished ==
  {k \in UNION {f .. (f + LoopSizes[f] - 2) : f \in DOMAIN LoopSizes} :
     last.op = "log" /\ last.text = Message(k)}

InLoop == Unfinished # {}

NextSweep ==
  \/ ~InLoop /\ NewLogger(1, EmptyRecord)
  \/ ~InLoop /\ \E f \in DOMAIN LoopSizes :
       logWithLevel(1, INFO, StringMessage(Message(f)), Undefined, << >>)
  \/ InLoop /\ \E k \in Unfinished :
       logWithLevel(1, INFO, StringMessage(Message(k + 1)), Undefined, << >>)
  \/ ~InLoop /\ \E d \in TickSteps : Tick(d)

InitSweep == InitCaller /\ build = "core/config.ts"

SpecSweep == InitSweep /\ [][NextSweep]_vars

LedgerSize(i) == Cardinality(DOMAIN recentLogs[i])

(* C26: after every accepted call the ledger holds at most 100 entries or  *)
(* no entry older than twice the window; the sweep never removes an entry  *)
(* whose age is at most twice the window; 150 distinct messages within one *)
(* window leave 150 entries.                                               *)
C26_SweepBound ==
  [][(last'.op = "log") =>
       LET i == last'.logger
       IN /\ (last'.written /\ Cardinality(DOMAIN recentLogs'[i]) > CleanupSize) =>
               \A k \in DOMAIN recentLogs'[i] :
                  now' - recentLogs'[i][k] <= 2 * duplicateThreshold
          /\ \A k \in DOMAIN recentLogs[i] :
               (now' - recentLogs[i][k] <= 2 * duplicateThreshold)
                  => k \in DOMAIN recentLogs'[i]
          /\ (/\ Cardinality(DOMAIN accepted'[i]) = 150
              /\ \A q \in DOMAIN accepted'[i] :
                   now' - accepted'[i][q] < duplicateThreshold)
               => Cardinality(DOMAIN recentLogs'[i]) = 150]_vars

C26_Witness ==
  /\ last.op = "log" /\ last.written
  /\ LedgerSize(1) > CleanupSize
  /\ LedgerSize(1) < Cardinality(DOMAIN accepted[1])
  /\ \E k \in DOMAIN recentLogs[1] : now - recentLogs[1][k] > duplicateThreshold

(* C27: with a clock that never goes back, evicting entries never changes  *)
(* a decision: every call is suppressed or accepted exactly as it would be *)
(* with a ledger that keeps every accept.                                  *)
KeptFresh(i, text) ==
  LET key == DuplicateKey(text, Undefined)
  IN \/ AcceptTimes(i, key) = {}
     \/ now - LastAccept(i, key) >= duplicateThreshold

C27_EvictionChangesNoDecision ==
  [][(last'.op = "log" /\ last'.gate = "pass") =>
       (last'.written <=> KeptFresh(last'.logger, last'.text))]_vars

C27_Witness ==
  /\ last.op = "log" /\ last.duplicate
  /\ Cardinality(DOMAIN accepted[1]) > LedgerSize(1)

----------------------------------------------------------------------------
(* The same message at several levels, console.error raising throughout    *)

InitLevels ==
  /\ ambient = ServerWith(EmptyRecord)
  /\ build \in Builds
  /\ heap = CallerHeap([db |-> [enabled |-> TRUE, minLevel |-> WARN]])
  /\ config = EmptyRecord
  /\ recentLogs = EmptyRecord
  /\ now = StartTime
  /\ ticks = 0
  /\ held = Undefined
  /\ accepted = EmptyRecord
  /\ last = [op |-> "init"]
  /\ localStorage = NoLocalStorage
  /\ storageAvailable = EmptyRecord
  /\ win = EmptyRecord
  /\ console = {ERROR}
  /\ environments = EmptyRecord

NextLevels ==
  \/ NewLogger(1, EmptyRecord)
  \/ \E l \in CallLevels, c \in {Undefined, Some("db")} :
       logWithLevel(1, l, StringMessage("a"), c, << >>)
  \/ \E d \in TickSteps : Tick(d)

SpecLevels == InitLevels /\ [][NextLevels]_vars

----------------------------------------------------------------------------
(* Error payloads: error(message | Error, category, ...args)               *)
ErrorObject(t, stackText) == [text |-> t, isError |-> TRUE, stack |-> stackText]

ErrorPayloads ==
  {ErrorObject("boom", st) : st \in {Undefined, Some(""), Some("at f")}}
    \cup {StringMessage("boom")}

ErrorArgs ==
  {<< >>, <<ErrorObject("cause", Some("at g")), StringMessage("context")>>}

NextErrors ==
  \/ NewLogger(1, EmptyRecord)
  \/ \E b \in BOOLEAN : configure(1, [includeStackTrace |-> b])
  \/ \E m \in ErrorPayloads, a \in ErrorArgs :
       logWithLevel(1, ERROR, m, Some("db"), a)
  \/ \E a \in ErrorArgs : logWithLevel(1, WARN, StringMessage("slow"), Undefined, a)
  \/ Tick(1001)

SpecErrors == InitCaller /\ [][NextErrors]_vars

C12_StackOfErrorArgument ==
  (last.op = "log" /\ last.level = ERROR /\ last.written
     /\ ~last.message.isError /\ LastView.includeStackTrace) =>
     \A k \in DOMAIN last.args :
        (last.args[k].isError /\ Truthy(last.args[k].stack)) =>
           /\ last.writes[1].args = last.args
           /\ \E j \in 2..Len(last.writes) :
                last.writes[j].text = Get(last.args[k].stack)

----------------------------------------------------------------------------
(* Configuration updates: configure(partial) with top-level fields and     *)
(* whole sections                                                          *)

(* a storage section the caller passes with one sub-field only             *)
PartialStorage == [enabled |-> FALSE]

UpdateHeap ==
  Append(CallerHeap([db |-> [enabled |-> TRUE, minLevel |-> WARN]]), PartialStorage)

UpdateInputs ==
  PartialConfigs(ConfigFields, 1)
    \cup {[storage |-> Len(UpdateHeap)],
          [minLevel |-> WARN, colors |-> CallerRef("colors")]}

InitUpdate ==
  /\ ambient = ServerWith(EmptyRecord)
  /\ build \in Builds
  /\ heap = UpdateHeap
  /\ config = EmptyRecord
  /\ recentLogs = EmptyRecord
  /\ now = StartTime
  /\ ticks = 0
  /\ held = Undefined
  /\ accepted = EmptyRecord
  /\ last = [op |-> "init"]
  /\ localStorage = NoLocalStorage
  /\ storageAvailable = EmptyRecord
  /\ win = EmptyRecord
  /\ console = {}
  /\ environments = EmptyRecord

NextUpdate ==
  \/ NewLogger(1, EmptyRecord)
  \/ \E p \in UpdateInputs : configure(1, p)
  \/ \E l \in {DEBUG, SILENT} : setLevel(1, l)

SpecUpdate == InitUpdate /\ [][NextUpdate]_vars

(* what a caller's partial configuration holds, references followed        *)
SuppliedValue(h, p, f) == IF f \in NestedFields THEN h[p[f]] ELSE p[f]

(* C18: after configure(partial) every top-level field named in partial    *)
(* equals the supplied value exactly (a section is replaced as a whole)    *)
(* and every top-level field not named is unchanged.                       *)
C18_ShallowMerge ==
  [][last'.op = "configure" =>
       LET i == last'.logger
           p == last'.newConfig
           after == View(heap', config'[i])
           before == View(heap, config[i])
       IN /\ DOMAIN after = DOMAIN before
          /\ \A f \in DOMAIN after :
               after[f] = IF f \in DOMAIN p THEN SuppliedValue(heap', p, f)
                          ELSE before[f]]_vars

C18_Witness ==
  /\ last.op = "configure"
  /\ last.newConfig = [storage |-> Len(UpdateHeap)]
  /\ LastView.storage = PartialStorage
  /\ "keyPrefix" \notin DOMAIN LastView.storage
  /\ LastView.colors.enabled

----------------------------------------------------------------------------
(* Browser loggers and localStorage                                        *)

(* a browser page whose bundler supplies process and process.env           *)
BrowserPage ==
  [hasWindow |-> TRUE, hasProcess |-> TRUE, hasEnv |-> TRUE, env |-> EmptyRecord]

(* what earlier page loads left under the default key prefix               *)
StoredItems ==
  {EmptyRecord,
   (DefaultKeyPrefix \o ConfigSuffix) :> TextEntry("{bad")
     @@ (DefaultKeyPrefix \o EnabledSuffix) :> TextEntry("false"),
   (DefaultKeyPrefix \o ConfigSuffix) :> TextEntry("")
     @@ (DefaultKeyPrefix \o EnabledSuffix) :> TextEntry("false")}

BrowserUserConfigs == {EmptyRecord, [storage |-> CallerRef("storage")]}

InitBrowser ==
  /\ ambient = BrowserPage
  /\ build \in Builds
  /\ heap = UpdateHeap
  /\ config = EmptyRecord
  /\ recentLogs = EmptyRecord
  /\ now = StartTime
  /\ ticks = 0
  /\ held = Undefined
  /\ accepted = EmptyRecord
  /\ last = [op |-> "init"]
  /\ localStorage \in {[present |-> TRUE, full |-> FALSE, items |-> it]
                         : it \in StoredItems}
  /\ storageAvailable = EmptyRecord
  /\ win = EmptyRecord
  /\ console = {}
  /\ environments = EmptyRecord

NextBrowser ==
  \/ \E u \in BrowserUserConfigs : NewBrowserLogger(1, u)
  \/ setLevel(1, ERROR)
  \/ \E p \in {[storage |-> Len(UpdateHeap)], [storage |-> CallerRef("storage")]} :
       configure(1, p)
  \/ enableCategory(1, "db", WARN)
  \/ disableCategory(1, "db")
  \/ enableAll(1)
  \/ disableAll(1)
  \/ \E b \in BOOLEAN : SetQuota(b)

SpecBrowser == InitBrowser /\ [][NextBrowser]_vars

LastBrowserBuilt == last.op = "new" /\ ~last.threw /\ last.kind = "browser"

(* a stored text that is not empty and that JSON.parse rejects             *)
Malformed(entry) ==
  "tree" \notin DOMAIN entry /\ entry.text # "" /\ entry.text \notin JsonScalarTexts

StoredConfigKey(view) == view.storage.keyPrefix \o ConfigSuffix

StoredEnabledKey(view) == view.storage.keyPrefix \o EnabledSuffix

ConfigurationOps ==
  {"configure", "setLevel", "enableCategory", "disableCategory", "enableAll",
   "disableAll"}

(* C20: right after a configuration operation on a browser logger with     *)
(* storage available, when the resulting configuration has storage         *)
(* enabled and the writes succeed, the <prefix>_config entry is the JSON   *)
(* serialization of the configuration and the <prefix>_enabled entry is    *)
(* 'true' or 'false' according to its enabled flag.                        *)
C20_SavedAfterEveryOperation ==
  (last.op \in ConfigurationOps /\ last.logger \in DOMAIN storageAvailable
     /\ storageAvailable[last.logger] /\ LastView.storage.enabled
     /\ localStorage.present /\ ~localStorage.full) =>
     /\ ~last.reported
     /\ StoredConfigKey(LastView) \in DOMAIN localStorage.items
     /\ localStorage.items[StoredConfigKey(LastView)]
          = JSONstringify(heap, config[last.logger])
     /\ StoredEnabledKey(LastView) \in DOMAIN localStorage.items
     /\ localStorage.items[StoredEnabledKey(LastView)]
          = TextEntry(IF LastView.enabled THEN "true" ELSE "false")

C20_Witness ==
  /\ last.op = "disableAll" /\ last.logger \in DOMAIN storageAvailable
  /\ storageAvailable[last.logger] /\ LastView.storage.enabled
  /\ localStorage.present /\ ~localStorage.full
  /\ localStorage.items[StoredEnabledKey(LastView)] = TextEntry("false")
  /\ localStorage.items[StoredConfigKey(LastView)].tree.enabled = FALSE
  /\ LastView.storage.keyPrefix = <<"m","i","n","e">>

----------------------------------------------------------------------------
(* A second browser logger built after the first one has been configured   *)

NextReload ==
  \/ \E u \in BrowserUserConfigs :
       NewBrowserLogger(IF 1 \in Constructed THEN 2 ELSE 1, u)
  \/ setLevel(1, ERROR)
  \/ \E p \in {[storage |-> Len(UpdateHeap)], [storage |-> CallerRef("storage")]} :
       configure(1, p)
  \/ disableAll(1)

SpecReload == InitBrowser /\ [][NextReload]_vars

(* C31: a configuration operation on a browser logger that results in a    *)
(* configuration with storage disabled writes nothing: the stored entries  *)
(* are left exactly as they were, they record a configuration with storage *)
(* enabled, and they are what the next logger constructed with storage     *)
(* enabled loads.                                                          *)
C31_DisabledStorageWritesNothing ==
  [][/\ (/\ last'.op \in ConfigurationOps
         /\ last'.logger \in DOMAIN storageAvailable
         /\ ~View(heap', config'[last'.logger]).storage.enabled)
          => (localStorage' = localStorage /\ ~last'.reported)
     /\ (/\ last'.op = "new" /\ last'.logger = 2 /\ ~last'.threw
         /\ storageAvailable'[2] /\ last'.resolved.storage.enabled
         /\ ~View(heap, config[1]).storage.enabled
         /\ StoredConfigKey(last'.resolved) \in DOMAIN localStorage.items
         /\ "tree" \in DOMAIN localStorage.items[StoredConfigKey(last'.resolved)])
          => LET tree == localStorage.items[StoredConfigKey(last'.resolved)].tree
                 flag == localStorage.items[StoredEnabledKey(last'.resolved)].text
                 loaded == View(heap', config'[2])
             IN /\ tree.storage.enabled
                /\ \A f \in (DOMAIN tree) \ {"enabled"} : loaded[f] = tree[f]
                /\ loaded.enabled = (flag = "true")]_vars

C31_Witness ==
  /\ LastBrowserBuilt /\ last.logger = 2
  /\ ~View(heap, config[1]).storage.enabled
  /\ LastView.minLevel = ERROR
  /\ last.resolved.minLevel # ERROR
  /\ ~LastView.enabled

----------------------------------------------------------------------------
(* A browser logger and a server logger side by side: createLogger is      *)
(* called in a page, then in a server process with the same variables and  *)
(* the same configuration; every call made on the first is then made on    *)
(* the second.                                                             *)

(* a page without a process global                                         *)
PlainPage ==
  [hasWindow |-> TRUE, hasProcess |-> FALSE, hasEnv |-> FALSE, env |-> EmptyRecord]

(* the server process that holds the same environment variables            *)
ServerLike(amb) == ServerWith(amb.env)

TwinUserConfigs == {EmptyRecord, [minLevel |-> INFO], [enabled |-> FALSE]}

TwinOps == {"log", "setLevel", "enableAll", "disableAll"}

InitTwin ==
  /\ ambient \in {PlainPage, BrowserPage}
  /\ build \in Builds
  /\ heap = UpdateHeap
  /\ config = EmptyRecord
  /\ recentLogs = EmptyRecord
  /\ now = StartTime
  /\ ticks = 0
  /\ held = Undefined
  /\ accepted = EmptyRecord
  /\ last = [op |-> "init"]
  /\ localStorage = [present |-> TRUE, full |-> FALSE, items |-> EmptyRecord]
  /\ storageAvailable = EmptyRecord
  /\ win = EmptyRecord
  /\ console = {}
  /\ environments = EmptyRecord

(* createLogger(config): the class is chosen by detectEnvironment          *)
createLogger(amb) ==
  IF detectEnvironment(amb).isBrowser THEN "BrowserLogger" ELSE "NodeLogger"

(* the calling code goes on in the server process                          *)
LeaveBrowser ==
  /\ last.op = "new" /\ last.logger = 1
  /\ ambient' = ServerLike(ambient)
  /\ last' = [op |-> "runtime", userConfig |-> last.userConfig]
  /\ UNCHANGED <<build, heap, config, recentLogs, now, ticks, held, accepted,
                 localStorage, storageAvailable, win, console, environments>>

FirstTurn == last.op = "tick" \/ (last.op \in TwinOps \cup {"new"} /\ last.logger = 2)

SecondTurn == last.op \in TwinOps /\ last.logger = 1

NextTwin ==
  \/ \E u \in TwinUserConfigs :
       /\ last.op = "init" /\ createLogger(ambient) = "BrowserLogger"
       /\ NewBrowserLogger(1, u)
  \/ LeaveBrowser
  \/ /\ last.op = "runtime" /\ createLogger(ambient) = "NodeLogger"
     /\ NewLogger(2, last.userConfig)
  \/ FirstTurn /\ \E l \in CallLevels : logWithLevel(1, l, StringMessage("m"), Undefined, << >>)
  \/ FirstTurn /\ \E l \in {DEBUG, ERROR} : setLevel(1, l)
  \/ FirstTurn /\ enableAll(1)
  \/ FirstTurn /\ disableAll(1)
  \/ FirstTurn /\ Tick(1001)
  \/ SecondTurn /\ last.op = "log"
       /\ logWithLevel(2, last.level, last.message, last.category, last.args)
  \/ SecondTurn /\ last.op = "setLevel" /\ setLevel(2, last.level)
  \/ SecondTurn /\ last.op = "enableAll" /\ enableAll(2)
  \/ SecondTurn /\ last.op = "disableAll" /\ disableAll(2)

SpecTwin == InitTwin /\ [][NextTwin]_vars

(* C21: a browser logger and a server logger built from the same           *)
(* configuration and the same environment variables, with nothing          *)
(* persisted, accept and suppress the same calls: each call made on the    *)
(* second has the outcome it had on the first.                             *)
C21_SameDecisionsInBothRuntimes ==
  [][(last.op = "log" /\ last.logger = 1 /\ last'.op = "log" /\ last'.logger = 2)
       => last'.written = last.written]_vars

----------------------------------------------------------------------------
(* A browser logger built over what earlier page loads stored              *)

StoredTree(tree) == [text |-> "{...}", tree |-> tree]

StoredTrees ==
  {[minLevel |-> ERROR, enabled |-> TRUE, showTimestamp |-> FALSE],
   [minLevel |-> DEBUG],
   [categories |-> [db |-> [enabled |-> TRUE, minLevel |-> ERROR]],
    enabled |-> FALSE]}

(* entries under the default key prefix: a configuration, an enabled       *)
(* entry, both, or none                                                    *)
SavedItems ==
  {EmptyRecord}
    \cup {(DefaultKeyPrefix \o EnabledSuffix) :> TextEntry(t) : t \in {"true", "false"}}
    \cup {(DefaultKeyPrefix \o ConfigSuffix) :> StoredTree(tr) : tr \in StoredTrees}
    \cup {(DefaultKeyPrefix \o ConfigSuffix) :> StoredTree(tr)
            @@ (DefaultKeyPrefix \o EnabledSuffix) :> TextEntry(t)
          : tr \in StoredTrees, t \in {"true", "false"}}

StoredPages ==
  {BrowserPage,
   [BrowserPage EXCEPT !.env = "LOG_LEVEL" :> <<"W","A","R","N">>],
   [BrowserPage EXCEPT !.env = "LOGGER_ENABLED" :> <<"f","a","l","s","e">>]}

StoredUserConfigs ==
  {EmptyRecord, [minLevel |-> INFO], [enabled |-> FALSE],
   [storage |-> CallerRef("storage")]}

InitStored ==
  /\ ambient \in StoredPages
  /\ build \in Builds
  /\ heap = UpdateHeap
  /\ config = EmptyRecord
  /\ recentLogs = EmptyRecord
  /\ now = StartTime
  /\ ticks = 0
  /\ held = Undefined
  /\ accepted = EmptyRecord
  /\ last = [op |-> "init"]
  /\ localStorage \in {[present |-> TRUE, full |-> FALSE, items |-> it]
                         : it \in SavedItems}
  /\ storageAvailable = EmptyRecord
  /\ win = EmptyRecord
  /\ console = {}
  /\ environments = EmptyRecord

NextStored ==
  \/ \E u \in StoredUserConfigs : NewBrowserLogger(1, u)
  \/ CallerGetConfig(1)

SpecStored == InitStored /\ [][NextStored]_vars

(* the entries stored under the prefix the logger resolved                 *)
SavedConfig == getItem(localStorage, StoredConfigKey(last.resolved))

SavedEnabled == getItem(localStorage, StoredEnabledKey(last.resolved))

(* C30: a browser logger constructed with storage available and enabled    *)
(* ends construction with every top-level field of the stored              *)
(* configuration holding the stored value, whatever the caller and the     *)
(* environment gave, and with enabled equal to the stored enabled entry    *)
(* whenever that entry exists (it is applied last); the stored             *)
(* configuration, if any, is one that parses.                              *)
C30_StoredValuesWin ==
  (LastBrowserBuilt /\ storageAvailable[last.logger]
     /\ last.resolved.storage.enabled
     /\ (IsDefined(SavedConfig) => ~Malformed(Get(SavedConfig)))) =>
     /\ (IsDefined(SavedConfig) /\ "tree" \in DOMAIN Get(SavedConfig)) =>
          \A f \in DOMAIN Get(SavedConfig).tree :
             (f = "enabled" /\ IsDefined(SavedEnabled))
               \/ LastView[f] = Get(SavedConfig).tree[f]
     /\ IsDefined(SavedEnabled) =>
          LastView.enabled = (Get(SavedEnabled).text = "true")

C30_Witness ==
  /\ LastBrowserBuilt /\ storageAvailable[last.logger]
  /\ last.userConfig = [minLevel |-> INFO]
  /\ IsDefined(SavedConfig) /\ IsDefined(SavedEnabled)
  /\ Get(SavedConfig) = StoredTree([minLevel |-> ERROR, enabled |-> TRUE,
                                    showTimestamp |-> FALSE])
  /\ Get(SavedEnabled).text = "false"
  /\ LastView.minLevel = ERROR /\ LastView.enabled = FALSE

----------------------------------------------------------------------------
(* The environment descriptor of a ConfigManager                           *)

EnvironmentAmbients ==
  {[hasWindow |-> w, hasProcess |-> p, hasEnv |-> FALSE, env |-> EmptyRecord]
     : w \in BOOLEAN, p \in BOOLEAN}
  \cup {[hasWindow |-> w, hasProcess |-> TRUE, hasEnv |-> TRUE, env |-> e]
     : w \in BOOLEAN,
       e \in {EmptyRecord} \cup {("NODE_ENV" :> m) : m \in ModeTexts}}

InitEnvironment ==
  /\ ambient \in EnvironmentAmbients
  /\ build \in Builds
  /\ heap = CallerHeap([db |-> [enabled |-> TRUE, minLevel |-> WARN]])
  /\ config = EmptyRecord
  /\ recentLogs = EmptyRecord
  /\ now = StartTime
  /\ ticks = 0
  /\ held = Undefined
  /\ accepted = EmptyRecord
  /\ last = [op |-> "init"]
  /\ localStorage = NoLocalStorage
  /\ storageAvailable = EmptyRecord
  /\ win = EmptyRecord
  /\ console = {}
  /\ environments = EmptyRecord

(* the globals change under a running program: global.window is deleted or *)
(* defined, process.env.NODE_ENV is reassigned                             *)
ChangeAmbient(amb) ==
  /\ amb # ambient
  /\ ambient' = amb
  /\ last' = [op |-> "runtime"]
  /\ UNCHANGED <<build, heap, config, recentLogs, now, ticks, held, accepted,
                 localStorage, storageAvailable, win, console, environments>>

(* const env = configManager.getEnvironment()                              *)
CallGetEnvironment(i) ==
  /\ i \in Constructed
  /\ environments' = getEnvironment(environments, i).objects
  /\ last' = [op |-> "getEnvironment", logger |-> i,
              returned |-> getEnvironment(environments, i).ref]
  /\ UNCHANGED <<ambient, build, heap, config, recentLogs, now, ticks, held,
                 accepted, localStorage, storageAvailable, win, console>>

(* env.<field> = value on the returned descriptor                          *)
CallerWriteDescriptor(field, value) ==
  /\ last.op \in {"getEnvironment", "descriptorWrite"}
  /\ environments' = [environments EXCEPT ![last.returned][field] = value]
  /\ last' = [op |-> "descriptorWrite", logger |-> last.logger,
              returned |-> last.returned]
  /\ UNCHANGED <<ambient, build, heap, config, recentLogs, now, ticks, held,
                 accepted, localStorage, storageAvailable, win, console>>

DescriptorFields == {"isBrowser", "isNode", "isDevelopment", "isProduction"}

NextEnvironment ==
  \/ NewLogger(1, EmptyRecord)
  \/ \E a \in EnvironmentAmbients : ChangeAmbient(a)
  \/ CallGetEnvironment(1)
  \/ \E f \in DescriptorFields, v \in BOOLEAN : CallerWriteDescriptor(f, v)

SpecEnvironment == InitEnvironment /\ [][NextEnvironment]_vars

(* the values getEnvironment() of logger i returns                         *)
Exposed(objects, i) ==
  getEnvironment(objects, i).objects[getEnvironment(objects, i).ref]

(* C37: wherever detection succeeds the descriptor never has browser and   *)
(* server both true and has exactly one of development and production      *)
(* true; the descriptor a resolver exposes is fixed at construction:       *)
(* neither a later change of the runtime nor a write to a descriptor that  *)
(* getEnvironment() returned changes what getEnvironment() returns.        *)
C37_DescriptorFixedAtConstruction ==
  [][/\ \A a \in {ambient, ambient'} :
          ~detectEnvironmentThrows(a) =>
             LET d == detectEnvironment(a)
             IN /\ ~(d.isBrowser /\ d.isNode)
                /\ d.isDevelopment # d.isProduction
     /\ (last'.op = "new" /\ ~last'.threw) =>
          Exposed(environments', last'.logger) = detectEnvironment(ambient)
     /\ \A i \in Constructed :
          Exposed(environments', i) = Exposed(environments, i)]_vars

(* the runtime has changed since construction and the caller has changed   *)
(* the descriptor it got; the logger still exposes the original values     *)
C37_Witness ==
  /\ last.op = "descriptorWrite"
  /\ environments[last.returned] # environments[<<"this", last.logger>>]
  /\ ~detectEnvironmentThrows(ambient)
  /\ detectEnvironment(ambient).isBrowser
       # environments[<<"this", last.logger>>].isBrowser
  /\ detectEnvironment(ambient).isDevelopment
       # environments[<<"this", last.logger>>].isDevelopment

====
